---- MODULE Spec2Model ----
(***************************************************************************)
(* A model of the language-state engine of dynamic-language-switcher:      *)
(* the LanguageSwitcher class (src/src/adapters/index.ts, lines 197-730)   *)
(* with the parts of ContentDetector and TranslationService it calls.      *)
(*                                                                         *)
(* Spec       the switcher as a state machine: setLanguage, addLanguage,   *)
(*            removeLanguage, addTranslations, the completion of an        *)
(*            awaited page translation.                                    *)
(* SpecText   getText / getTranslationByKey over dictionaries, keys and    *)
(*            params drawn from bounded sets.                              *)
(* SpecInterp defaultInterpolation over templates drawn from bounded sets. *)
(* SpecMerge  addTranslations over bounded dictionaries.                    *)
(* SpecPersist a later construction over the same storage slot.            *)
(* SpecPage   translatePage and restoreOriginalText on a page.             *)
(* SpecDetect ContentDetector.detect on nested documents.                  *)
(* SpecBatch  TranslationService.translateBatch, item by item.             *)
(* SpecElements translatePage and translateElement on two elements.         *)
(* SpecWatch  ContentDetector.watch and its MutationObserver callback.      *)
(* SpecCallbacks watch() called by two callers with their own callbacks.    *)
(* SpecAutoWatch startAutoTranslation, stopAutoTranslation and the callback *)
(*            that translates what the detector reports.                   *)
(***************************************************************************)
EXTENDS Integers, Sequences, FiniteSets, TLC

VARIABLES
    currentLanguage,      \* LanguageSwitcher.currentLanguage
    availableLanguages,   \* LanguageSwitcher.availableLanguages (array of configs)
    translations,         \* LanguageSwitcher.translations (code -> dictionary)
    onLanguageChange,     \* TRUE iff a change callback is assigned
    options,              \* LanguageSwitcher.options (fixed at construction)
    translationService,   \* TRUE iff translationService is not null
    originalTexts,        \* LanguageSwitcher.originalTexts (element -> text)
    detectedContent,      \* ContentDetector.detectedContent (array of records)
    env,                  \* the host: is there a document, what localStorage does
    storage,              \* the value of localStorage[storageKey]
    documentElement,      \* document.documentElement: dir and data-direction
    dom,                  \* element -> [text, translated] (text and marker)
    pending,              \* setLanguage calls suspended at `await translatePage`
    ev,                   \* what the last call did: thrown, callbacks, translator calls
    interpolationFunction,\* LanguageSwitcher.interpolationFunction
    call                  \* SpecText/SpecInterp: the call under test and its result

vars == <<currentLanguage, availableLanguages, translations, onLanguageChange,
          options, translationService, originalTexts, detectedContent, env,
          storage, documentElement, dom, pending, ev, interpolationFunction, call>>

engineVars == <<currentLanguage, availableLanguages, translations, onLanguageChange,
                options, translationService, originalTexts, detectedContent, env,
                storage, documentElement, dom, pending, ev>>

textVars == <<interpolationFunction, call>>

----------------------------------------------------------------------------
(* Values *)

Undefined == "undefined"

\* The language codes callers use; "en" is options.defaultLanguage.
LangCodes == {"en", "ar"}

\* The codes callers pass: "fr" is never the code of a config.
CallCodes == LangCodes \cup {"fr"}

defaultLanguage == "en"

\* Bounds of the model.
MaxLangs == 2      \* longest availableLanguages array
MaxPending == 2    \* most setLanguage calls suspended at once

\* LanguageConfig {code, name, flag?, rtl?}: rtl is an optional field, and
\* every reader takes rtl: false as it takes a missing rtl (config?.rtl || false).
Configs ==
    {[code |-> c] : c \in LangCodes}
        \cup {[code |-> c, rtl |-> TRUE] : c \in LangCodes}

\* A displayed text: its source wording, the language it is rendered in
\* ("orig" when untranslated) and whether it carries runs of white space.
Text(src, lang, ws) == [src |-> src, lang |-> lang, ws |-> ws]

EmptyText == Text("", "orig", FALSE)

\* An absent text (DetectedContent.translatedText before any translation).
NoText == Text("", Undefined, FALSE)

Elements == {"e1"}

----------------------------------------------------------------------------
(* The host environment and the construction options *)

\* options: the constructor's defaults overridden by the caller's options.
OptionSets ==
    [persistLanguage : BOOLEAN, autoTranslate : BOOLEAN,
     preserveOriginalText : BOOLEAN, translationApi : BOOLEAN,
     fallbackLanguage : {"en"}]

\* hasDocument: typeof document !== 'undefined'.  localStorage: "ok", "absent"
\* (no window or no window.localStorage) or "throws" (every access throws).
Envs == [hasDocument : BOOLEAN, localStorage : {"ok", "absent", "throws"}]

\* What the storage slot may hold before construction.
StoredValues == {Undefined, "ar"}

\* The page the switcher is constructed on: every element shows its own text.
PageTexts == {Text("Hello", "orig", ws) : ws \in BOOLEAN}

\* Elements in document order, as querySelectorAll returns them.
RECURSIVE SeqOfSet(_)
SeqOfSet(S) ==
    IF S = {} THEN <<>>
    ELSE LET x == CHOOSE y \in S : TRUE IN <<x>> \o SeqOfSet(S \ {x})

querySelectorAll(d) == SeqOfSet(DOMAIN d)

----------------------------------------------------------------------------
(* ContentDetector *)

\* extractText / extractElementText for a plain element: textContent with
\* every run of white space collapsed to one space, trimmed.
extractElementText(d, el) == [d[el].text EXCEPT !.ws = FALSE]

\* isTranslatableText: at least two characters, not only digits, white space
\* and punctuation.
isTranslatableText(t) == t.src \notin {"", "7"}

\* An element of a document: [text, translated] and, where the document
\* says so, `deny` (the element matches an exclude selector or carries
\* data-no-translate / .no-translate) and `parent` (its parentElement).
parentElement(d, el) == IF "parent" \in DOMAIN d[el] THEN d[el].parent ELSE Undefined

\* The element itself matches a deny rule: the translated marker, a
\* no-translate marker or an exclude selector.
matchesDenyRule(d, el) ==
    d[el].translated \/ ("deny" \in DOMAIN d[el] /\ d[el].deny)

\* shouldExcludeElement looking at the element alone.
shouldExcludeElement_OwnRulesOnly(d, el) == matchesDenyRule(d, el)

\* shouldExcludeElement: the element or one of its ancestors matches a rule.
RECURSIVE shouldExcludeElement(_, _)
shouldExcludeElement(d, el) ==
    \/ matchesDenyRule(d, el)
    \/ /\ parentElement(d, el) # Undefined
       /\ shouldExcludeElement(d, parentElement(d, el))

\* The tracked test answering no for every element.
isTracked_Never(det, el) == FALSE

\* detectedContent.some(content => content.element === element).
isTracked(det, el) == \E j \in DOMAIN det : det[j].element = el

\* detect(): the elements not excluded and not yet tracked whose text is
\* translatable, appended to detectedContent in document order.
RECURSIVE detectFrom(_, _, _)
detectFrom(d, det, i) ==
    IF i > Len(querySelectorAll(d)) THEN det
    ELSE LET el == querySelectorAll(d)[i]
             text == extractElementText(d, el)
         IN  IF shouldExcludeElement(d, el) \/ isTracked(det, el)
                \/ ~(text # EmptyText /\ isTranslatableText(text))
             THEN detectFrom(d, det, i + 1)
             ELSE detectFrom(d, Append(det,
                      [element |-> el, originalText |-> text,
                       translatedText |-> NoText, isTranslated |-> FALSE]), i + 1)

detect(d, det) == detectFrom(d, det, 1)

\* markAsTranslated(element, text): the first record of the element, if any.
markAsTranslated(det, el, tt) ==
    IF \E j \in DOMAIN det : det[j].element = el
    THEN LET j == CHOOSE k \in DOMAIN det :
                      /\ det[k].element = el
                      /\ \A m \in 1..(k - 1) : det[m].element # el
         IN  [det EXCEPT ![j].translatedText = tt, ![j].isTranslated = TRUE]
    ELSE det

----------------------------------------------------------------------------
(* TranslationService *)

\* What the provider returns for a text: the same wording in the target language.
Translated(text, to) == Text(text.src, to, FALSE)

\* The confidence of a response: the provider's, or zero.
ProviderConfidence == "0.95"
ZeroConfidence == "0"

\* The response pushed for a failed item carrying no text.
batchResponse_EmptyOnFailure(request, ok) ==
    IF ok
    THEN [translatedText |-> Translated(request.text, request.toLanguage),
          confidence |-> ProviderConfidence]
    ELSE [translatedText |-> EmptyText, confidence |-> ZeroConfidence]

\* One turn of translateBatch's loop: the response pushed for a request,
\* translate()'s when the provider call succeeds (ok), the fallback of the
\* catch block when it throws.
batchResponse(request, ok) ==
    IF ok
    THEN [translatedText |-> Translated(request.text, request.toLanguage),
          confidence |-> ProviderConfidence]
    ELSE [translatedText |-> request.text, confidence |-> ZeroConfidence]

\* translateBatch as translateContent reads it: the translatedText of one
\* response per request, in order.  ok[i] says whether the provider call for
\* item i succeeded.
translateBatch(requests, ok) ==
    [i \in DOMAIN requests |-> batchResponse(requests[i], ok[i]).translatedText]

----------------------------------------------------------------------------
(* LanguageSwitcher: helpers *)

isLanguageAvailable(avail, language) ==
    \E i \in DOMAIN avail : avail[i].code = language

\* Array.prototype.findIndex: the first index whose config has the code, or 0.
findIndex(avail, language) ==
    IF isLanguageAvailable(avail, language)
    THEN CHOOSE i \in DOMAIN avail :
            /\ avail[i].code = language
            /\ \A j \in 1..(i - 1) : avail[j].code # language
    ELSE 0

\* isRTL reading the direction last written to the document.
isRTL_FromDocument(avail, language) == documentElement.dir = "rtl"

\* isRTL() for a given array and current language: config?.rtl || false.
isRTL(avail, language) ==
    LET i == findIndex(avail, language)
    IN  IF i = 0 THEN FALSE
        ELSE IF "rtl" \in DOMAIN avail[i] THEN avail[i].rtl ELSE FALSE

getDocumentDirection(avail, language) ==
    IF isRTL(avail, language) THEN "rtl" ELSE "ltr"

\* updateDocumentDirection writing the dir attribute only.
updateDocumentDirection_DirOnly(avail, language) ==
    IF env.hasDocument
    THEN [documentElement EXCEPT !.dir = getDocumentDirection(avail, language)]
    ELSE documentElement

\* updateDocumentDirection(): both attributes, only where there is a document.
updateDocumentDirection(avail, language) ==
    IF env.hasDocument
    THEN [dir |-> getDocumentDirection(avail, language),
          dataDirection |-> getDocumentDirection(avail, language)]
    ELSE documentElement

\* persistLanguage without the setItem call.
persistLanguage_WritesNothing(language) == storage

\* persistLanguage(language): setItem when localStorage exists; a throw is caught.
persistLanguage(language) ==
    IF env.localStorage = "ok" THEN language ELSE storage

\* loadPersistedLanguage(): the stored code if it names an available language.
loadPersistedLanguage(avail, cur, stored, e) ==
    IF e.localStorage = "ok" /\ stored # Undefined /\ isLanguageAvailable(avail, stored)
    THEN stored ELSE cur

\* applyTranslation(element, translatedText) on a page p = [dom, orig, det].
applyTranslation(p, el, tt) ==
    [p EXCEPT
        !.orig = IF options.preserveOriginalText
                 THEN (el :> extractElementText(p.dom, el)) @@ p.orig
                 ELSE p.orig,
        !.dom = [p.dom EXCEPT ![el].text = tt, ![el].translated = TRUE]]

\* restoreElementText(element): only when the snapshot holds a non-empty text.
restoreElementText(p, el) ==
    IF el \in DOMAIN p.orig /\ p.orig[el] # EmptyText
    THEN [p EXCEPT
            !.dom = [p.dom EXCEPT ![el] = [text |-> p.orig[el], translated |-> FALSE]],
            !.orig = [x \in (DOMAIN p.orig) \ {el} |-> p.orig[x]]]
    ELSE p

\* restoreOriginalText(): restoreElementText for every snapshot entry.
RECURSIVE restoreEach(_, _)
restoreEach(p, els) ==
    IF els = {} THEN p
    ELSE LET el == CHOOSE x \in els : TRUE
         IN  restoreEach(restoreElementText(p, el), els \ {el})

restoreOriginalText(p) == restoreEach(p, DOMAIN p.orig)

\* The requests translateContent builds from the detector's records.
RECURSIVE requestsFrom(_, _, _)
requestsFrom(det, target, i) ==
    IF i > Len(det) THEN <<>>
    ELSE (IF isTranslatableText(det[i].originalText)
          THEN <<[text |-> det[i].originalText, fromLanguage |-> defaultLanguage,
                  toLanguage |-> target, element |-> det[i].element]>>
          ELSE <<>>) \o requestsFrom(det, target, i + 1)

\* responses.forEach: apply and mark every response with a non-empty text.
RECURSIVE applyResponses(_, _, _, _)
applyResponses(p, requests, responses, i) ==
    IF i > Len(responses) THEN p
    ELSE LET el == requests[i].element
             q == IF responses[i] # EmptyText
                  THEN [applyTranslation(p, el, responses[i]) EXCEPT
                           !.det = markAsTranslated(p.det, el, responses[i])]
                  ELSE p
         IN  applyResponses(q, requests, responses, i + 1)

Page == [dom |-> dom, orig |-> originalTexts, det |-> detectedContent]

----------------------------------------------------------------------------
(* LanguageSwitcher: setLanguage *)

\* The error a call throws (or rejects with): its message and the code in it.
NoError == [message |-> "", language |-> ""]
NotAvailable(language) == [message |-> "Language is not available", language |-> language]
CannotRemoveDefault(language) ==
    [message |-> "Cannot remove default language", language |-> language]

\* A call that throws nothing, reaches no setLanguage branch, invokes no
\* callback, sends no batch and restores nothing.
Quiet == [error |-> NoError, outcome |-> "none", fired |-> <<>>, batch |-> <<>>,
          restored |-> FALSE]

\* fireCallback passing this.currentLanguage instead of the call's argument.
fireCallback_PassesCurrent(language, cur) ==
    IF onLanguageChange THEN <<[code |-> cur, current |-> cur]>> ELSE <<>>

\* The callback invocation of setLanguage's last statement: nothing when no
\* callback is assigned.  `cur` is currentLanguage at the moment of the call.
fireCallback(language, cur) ==
    IF onLanguageChange THEN <<[code |-> language, current |-> cur]>> ELSE <<>>

\* translatePage(language) as setLanguage calls it, up to its first await:
\* restore for the default language, otherwise the batch request for the
\* detected content (none when nothing is translatable).
translatePage(language) ==
    IF language = defaultLanguage
    THEN [page |-> restoreOriginalText(Page), requests |-> <<>>, restored |-> TRUE]
    ELSE [page |-> Page, requests |-> requestsFrom(detectedContent, language, 1),
          restored |-> FALSE]

\* setLanguageOutcome without the availability guard.
setLanguageOutcome_Unguarded(avail, language) ==
    IF currentLanguage = language THEN "same" ELSE "switch"

\* Whether setLanguage throws, returns at once or switches.
setLanguageOutcome(avail, language) ==
    IF ~isLanguageAvailable(avail, language) THEN "throw"
    ELSE IF currentLanguage = language THEN "same"
    ELSE "switch"

\* setLanguage never calling translatePage.
awaitsTranslation_Never == FALSE

\* Whether an accepted setLanguage awaits translatePage before the callback.
awaitsTranslation == options.autoTranslate /\ translationService

\* setLanguage(language) over the array `avail`, from entry to its return or
\* to its suspension at `await this.translatePage(language)`.
setLanguage(avail, language) ==
    LET outcome == setLanguageOutcome(avail, language)
        same == [outcome |-> outcome, currentLanguage |-> currentLanguage,
                 storage |-> storage, documentElement |-> documentElement,
                 page |-> Page, pending |-> pending, fired |-> <<>>,
                 batch |-> <<>>, restored |-> FALSE]
        tp == translatePage(language)
    IN  IF outcome # "switch" THEN same
        ELSE [outcome |-> outcome,
              currentLanguage |-> language,
              storage |-> IF options.persistLanguage
                          THEN persistLanguage(language) ELSE storage,
              documentElement |-> updateDocumentDirection(avail, language),
              page |-> IF awaitsTranslation THEN tp.page ELSE Page,
              pending |-> IF awaitsTranslation
                          THEN Append(pending, [language |-> language,
                                                requests |-> tp.requests])
                          ELSE pending,
              fired |-> IF awaitsTranslation THEN <<>>
                        ELSE fireCallback(language, language),
              batch |-> IF awaitsTranslation THEN tp.requests ELSE <<>>,
              restored |-> awaitsTranslation /\ tp.restored]

\* The part of the state a call of setLanguage assigns.
AssignSetLanguage(r) ==
    /\ currentLanguage' = r.currentLanguage
    /\ storage' = r.storage
    /\ documentElement' = r.documentElement
    /\ dom' = r.page.dom
    /\ originalTexts' = r.page.orig
    /\ detectedContent' = r.page.det
    /\ pending' = r.pending

\* A caller invokes setLanguage(language).
SetLanguage(language) ==
    LET r == setLanguage(availableLanguages, language)
    IN  /\ Len(r.pending) <= MaxPending
        /\ AssignSetLanguage(r)
        /\ ev' = [error |-> IF r.outcome = "throw" THEN NotAvailable(language)
                             ELSE NoError,
                  outcome |-> r.outcome, fired |-> r.fired,
                  batch |-> r.batch, restored |-> r.restored]
        /\ UNCHANGED <<availableLanguages, translations, onLanguageChange,
                       options, translationService, env>>

\* A suspended setLanguage resumes: the batch has answered (ok[i] tells
\* whether item i was translated), the responses are applied, the callback
\* fires.  A call that sent no request resumes before any that did.
CanResume(i) ==
    /\ i \in DOMAIN pending
    /\ IF pending[i].requests = <<>>
       THEN \A j \in 1..(i - 1) : pending[j].requests # <<>>
       ELSE \A j \in DOMAIN pending : pending[j].requests # <<>>

ResumeSetLanguage(i, ok) ==
    /\ CanResume(i)
    /\ LET t == pending[i]
           p == applyResponses(Page, t.requests, translateBatch(t.requests, ok), 1)
       IN  /\ dom' = p.dom
           /\ originalTexts' = p.orig
           /\ detectedContent' = p.det
           /\ pending' = SubSeq(pending, 1, i - 1) \o SubSeq(pending, i + 1, Len(pending))
           /\ ev' = [Quiet EXCEPT !.fired = fireCallback(t.language, currentLanguage)]
    /\ UNCHANGED <<currentLanguage, availableLanguages, translations, onLanguageChange,
                   options, translationService, env, storage, documentElement>>

----------------------------------------------------------------------------
(* LanguageSwitcher: the registry *)

\* addLanguage(language, config): replace the first entry whose code is
\* `language`, else push the config.
addLanguage(avail, language, config) ==
    LET i == findIndex(avail, language)
    IN  IF i > 0 THEN [avail EXCEPT ![i] = config] ELSE Append(avail, config)

AddLanguage(language, config) ==
    /\ Len(addLanguage(availableLanguages, language, config)) <= MaxLangs
    /\ availableLanguages' = addLanguage(availableLanguages, language, config)
    /\ ev' = Quiet
    /\ UNCHANGED <<currentLanguage, translations, onLanguageChange, options,
                   translationService, originalTexts, detectedContent, env, storage,
                   documentElement, dom, pending>>

\* The dictionary the registry's callers add (its content matters to getText,
\* modelled under SpecText).
SampleDictionary == "dictionary"

\* addTranslations(language, data): a top-level merge into translations[language].
AddTranslations(language) ==
    /\ translations' = (language :> SampleDictionary) @@ translations
    /\ ev' = Quiet
    /\ UNCHANGED <<currentLanguage, availableLanguages, onLanguageChange, options,
                   translationService, originalTexts, detectedContent, env, storage,
                   documentElement, dom, pending>>

\* Array.prototype.filter(lang => lang.code !== language).
RECURSIVE filterOut(_, _)
filterOut(avail, language) ==
    IF avail = <<>> THEN <<>>
    ELSE (IF Head(avail).code # language THEN <<Head(avail)>> ELSE <<>>)
            \o filterOut(Tail(avail), language)

\* removeLanguageThrows guarding the current language instead of the default.
removeLanguageThrows_GuardsCurrent(language) == language = currentLanguage

\* Whether removeLanguage throws.
removeLanguageThrows(language) == language = defaultLanguage

\* removeLanguage(language): a throw for the default language; otherwise the
\* config and the dictionary go, and when the language was current
\* setLanguage(defaultLanguage) is called (not awaited, its rejection dropped).
RemoveLanguage(language) ==
    IF removeLanguageThrows(language)
    THEN /\ ev' = [Quiet EXCEPT !.error = CannotRemoveDefault(language)]
         /\ UNCHANGED <<currentLanguage, availableLanguages, translations,
                        onLanguageChange, options, translationService, originalTexts,
                        detectedContent, env, storage, documentElement, dom, pending>>
    ELSE LET avail == filterOut(availableLanguages, language)
             r == IF currentLanguage = language
                  THEN setLanguage(avail, defaultLanguage)
                  ELSE [setLanguage(avail, currentLanguage) EXCEPT !.outcome = "none"]
         IN  /\ Len(r.pending) <= MaxPending
             /\ availableLanguages' = avail
             /\ translations' = [l \in (DOMAIN translations) \ {language} |-> translations[l]]
             /\ AssignSetLanguage(r)
             /\ ev' = [error |-> NoError, outcome |-> r.outcome, fired |-> r.fired,
                       batch |-> r.batch, restored |-> r.restored]
             /\ UNCHANGED <<onLanguageChange, options, translationService, env>>

\* switcher.onLanguageChange = fn, or = undefined.
SetOnLanguageChange(assigned) ==
    /\ onLanguageChange' = assigned
    /\ ev' = Quiet
    /\ UNCHANGED <<currentLanguage, availableLanguages, translations, options,
                   translationService, originalTexts, detectedContent, env, storage,
                   documentElement, dom, pending>>

\* setTranslationApi(config).
SetTranslationApi ==
    /\ translationService' = TRUE
    /\ ev' = Quiet
    /\ UNCHANGED <<currentLanguage, availableLanguages, translations, onLanguageChange,
                   options, originalTexts, detectedContent, env, storage,
                   documentElement, dom, pending>>

----------------------------------------------------------------------------
(* Construction *)

\* new LanguageSwitcher(options) in environment e with `stored` in the slot.
Construct(o, e, stored, d) ==
    /\ options = o
    /\ env = e
    /\ storage = stored
    /\ dom = d
    /\ availableLanguages = addLanguage(<<>>, defaultLanguage, [code |-> defaultLanguage])
    /\ currentLanguage =
          IF o.persistLanguage
          THEN loadPersistedLanguage(availableLanguages, defaultLanguage, stored, e)
          ELSE defaultLanguage
    /\ translations = <<>>
    /\ onLanguageChange = FALSE
    /\ translationService = o.translationApi
    /\ originalTexts = <<>>
    /\ detectedContent = IF o.autoTranslate /\ e.hasDocument THEN detect(d, <<>>) ELSE <<>>
    /\ documentElement = [dir |-> "", dataDirection |-> Undefined]
    /\ pending = <<>>
    /\ ev = Quiet

TextIdle ==
    /\ interpolationFunction = "default"
    /\ call = [op |-> "none"]

\* The constructions explored: every persistence set-up, every page set-up.
Constructions(autoTranslate) ==
    {c \in [o : OptionSets, e : Envs, stored : StoredValues] :
        /\ c.o.autoTranslate = autoTranslate
        /\ (c.e.localStorage = "absent" => c.stored = Undefined)
        /\ (~c.o.persistLanguage => c.e.localStorage = "ok")
        /\ (~(c.o.autoTranslate /\ c.e.hasDocument) => c.o.preserveOriginalText)
        /\ (~c.o.autoTranslate => ~c.o.translationApi)}

InitWith(cs) ==
    /\ \E c \in cs, d \in [Elements -> [text : PageTexts, translated : {FALSE}]] :
            Construct(c.o, c.e, c.stored, d)
    /\ TextIdle

\* The switcher without automatic translation (options.autoTranslate false).
Init == InitWith(Constructions(FALSE))

Next ==
    \/ \E l \in CallCodes : SetLanguage(l) /\ UNCHANGED textVars
    \/ \E l \in CallCodes, c \in Configs : AddLanguage(l, c) /\ UNCHANGED textVars
    \/ \E l \in LangCodes : AddTranslations(l) /\ UNCHANGED textVars
    \/ \E l \in CallCodes : RemoveLanguage(l) /\ UNCHANGED textVars
    \/ \E b \in BOOLEAN : SetOnLanguageChange(b) /\ UNCHANGED textVars
    \/ SetTranslationApi /\ UNCHANGED textVars

Spec == Init /\ [][Next]_vars

\* The switcher with automatic translation on a page.
InitAuto ==
    InitWith({c \in Constructions(TRUE) :
                 /\ c.e.hasDocument /\ c.e.localStorage = "ok"
                 /\ c.o.persistLanguage /\ c.stored = Undefined})

NextAuto ==
    \/ \E l \in CallCodes : SetLanguage(l) /\ UNCHANGED textVars
    \/ \E i \in 1..MaxPending, ok \in [1..Cardinality(Elements) -> BOOLEAN] :
          ResumeSetLanguage(i, ok) /\ UNCHANGED textVars
    \/ \E l \in CallCodes, c \in Configs : AddLanguage(l, c) /\ UNCHANGED textVars
    \/ \E l \in CallCodes : RemoveLanguage(l) /\ UNCHANGED textVars
    \/ \E b \in BOOLEAN : SetOnLanguageChange(b) /\ UNCHANGED textVars
    \/ SetTranslationApi /\ UNCHANGED textVars

SpecAuto == InitAuto /\ [][NextAuto]_vars

----------------------------------------------------------------------------
(* Strings, dictionaries and keys of getText *)

\* A string is the sequence of its characters.
WordChars == {"a", "n", "m", "v", "0", "1", "2", "3", "4", "5", "6", "7", "8", "9"}

\* String.prototype.split('.'): the segments between the dots, empty ones kept.
RECURSIVE splitFrom(_, _, _)
splitFrom(key, i, seg) ==
    IF i > Len(key) THEN <<seg>>
    ELSE IF key[i] = "." THEN <<seg>> \o splitFrom(key, i + 1, <<>>)
    ELSE splitFrom(key, i + 1, Append(seg, key[i]))

split(key) == splitFrom(key, 1, <<>>)

\* A value met while walking a dictionary: a string, a nested dictionary
\* (a function from keys to values) or undefined.
StringNode(str) == [type |-> "string", value |-> str]
ObjectNode(dict) == [type |-> "object", value |-> dict]
UndefinedNode == [type |-> "undefined", value |-> <<>>]

\* Number.prototype.toString for a natural number: its decimal digits.
Digit(d) == <<"0", "1", "2", "3", "4", "5", "6", "7", "8", "9">>[d + 1]

RECURSIVE numberToString(_)
numberToString(n) ==
    IF n < 10 THEN <<Digit(n)>> ELSE Append(numberToString(n \div 10), Digit(n % 10))

\* value.toString() of a parameter value, a string or a number.
toString(v) == IF v.type = "number" THEN numberToString(v.value) ELSE v.value

----------------------------------------------------------------------------
(* LanguageSwitcher: interpolation *)

\* The longest run of \w characters of text from position i on.
RECURSIVE wordEnd(_, _)
wordEnd(text, i) ==
    IF i <= Len(text) /\ text[i] \in WordChars THEN wordEnd(text, i + 1) ELSE i

\* Where a match of  open \w+ close  that begins at position i ends (the
\* position after it), or 0 when none begins there.
matchEnd(text, i, open, close) ==
    LET w == i + Len(open)
        e == wordEnd(text, w)
    IN  IF /\ i + Len(open) - 1 <= Len(text)
           /\ SubSeq(text, i, i + Len(open) - 1) = open
           /\ e > w
           /\ e + Len(close) - 1 <= Len(text)
           /\ SubSeq(text, e, e + Len(close) - 1) = close
        THEN e + Len(close) ELSE 0

\* (match, key) => params[key]?.toString() || match : an empty string is
\* falsy, so the match itself is kept.
replacement(match, key, params) ==
    IF key \in DOMAIN params /\ toString(params[key]) # <<>>
    THEN toString(params[key]) ELSE match

\* text.replace(/open(\w+)close/g, ...): leftmost matches, left to right,
\* the replacement is not scanned again.
RECURSIVE replaceAll(_, _, _, _, _)
replaceAll(text, i, open, close, params) ==
    IF i > Len(text) THEN <<>>
    ELSE LET e == matchEnd(text, i, open, close)
         IN  IF e = 0
             THEN <<text[i]>> \o replaceAll(text, i + 1, open, close, params)
             ELSE replacement(SubSeq(text, i, e - 1),
                              SubSeq(text, i + Len(open), e - Len(close) - 1), params)
                      \o replaceAll(text, e, open, close, params)

\* defaultInterpolation: /\{\{(\w+)\}\}/g.
defaultInterpolation(text, params) ==
    replaceAll(text, 1, <<"{", "{">>, <<"}", "}">>, params)

\* The custom function of the test suite: /\$(\w+)/g.
dollarInterpolation(text, params) ==
    replaceAll(text, 1, <<"$">>, <<>>, params)

\* this.interpolationFunction(text, params).
interpolate(fn, text, params) ==
    IF fn = "default" THEN defaultInterpolation(text, params)
    ELSE dollarInterpolation(text, params)

----------------------------------------------------------------------------
(* LanguageSwitcher: getText *)

\* walkStep without the `typeof current === 'object'` test: `k in` a
\* non-empty string throws a TypeError.
walkStep_NoTypeTest(current, k) ==
    IF current.type = "string" /\ current.value # <<>>
    THEN [type |-> "TypeError", value |-> <<>>]
    ELSE IF current.type = "object" /\ k \in DOMAIN current.value
    THEN current.value[k]
    ELSE UndefinedNode

\* One turn of the loop of getTranslationByKey:
\*   if (current && typeof current === 'object' && k in current) current = current[k]
\*   else { current = undefined; break }
\* `k in` a value that is no object would throw a TypeError.
walkStep(current, k) ==
    IF current.type = "object" /\ k \in DOMAIN current.value
    THEN current.value[k]
    ELSE UndefinedNode

RECURSIVE walk(_, _, _)
walk(current, keys, i) ==
    IF i > Len(keys) \/ current.type \in {"undefined", "TypeError"} THEN current
    ELSE walk(walkStep(current, keys[i]), keys, i + 1)

\* this.translations[language]: the dictionary or undefined.
dictionaryOf(language) ==
    IF language \in DOMAIN translations
    THEN ObjectNode(translations[language]) ELSE UndefinedNode

\* Whether getTranslationByKey walks the fallback dictionary after a miss.
consultsFallback ==
    options.fallbackLanguage # Undefined /\ options.fallbackLanguage # currentLanguage

\* getTranslationByKey(key): the string in the current dictionary, else the
\* string in the fallback dictionary, else undefined.
getTranslationByKey(key) ==
    LET keys == split(key)
        cur == walk(dictionaryOf(currentLanguage), keys, 1)
        fb == walk(dictionaryOf(options.fallbackLanguage), keys, 1)
    IN  IF cur.type \in {"string", "TypeError"} THEN cur
        ELSE IF consultsFallback /\ fb.type \in {"string", "TypeError"} THEN fb
        ELSE UndefinedNode

\* if (!translation): undefined and the empty string are falsy.
isFalsy(node) == node.type = "undefined" \/ (node.type = "string" /\ node.value = <<>>)

\* getText(key, params): what it returns, the calls of the interpolation
\* function it makes, whether it throws.  p.given tells whether the params
\* argument was passed at all.
getText(key, p) ==
    LET translation == getTranslationByKey(key)
    IN  IF translation.type = "TypeError"
        THEN [value |-> <<>>, invoked |-> <<>>, thrown |-> TRUE]
        ELSE IF isFalsy(translation)
        THEN [value |-> key, invoked |-> <<>>, thrown |-> FALSE]
        ELSE IF p.given
        THEN [value |-> interpolate(interpolationFunction, translation.value, p.map),
              invoked |-> <<[fn |-> interpolationFunction, text |-> translation.value,
                             params |-> p.map]>>,
              thrown |-> FALSE]
        ELSE [value |-> translation.value, invoked |-> <<>>, thrown |-> FALSE]

----------------------------------------------------------------------------
(* getText over bounded inputs *)

MaxKeyLen == 3     \* longest key passed to getText, in characters
MaxSegments == 3   \* most pieces of a template passed to defaultInterpolation

SeqsUpTo(S, n) == UNION {[1..k -> S] : k \in 0..n}

\* The keys callers pass: every string of "a" and "." up to MaxKeyLen.
Keys == SeqsUpTo({"a", "."}, MaxKeyLen)

\* A template with a placeholder of each syntax, as getText's tests use.
Template == <<"{", "{", "n", "}", "}", "$", "n">>

NumberNode(n) == [type |-> "number", value |-> n]

\* The string leaves of the dictionaries: the empty string and the template.
Leaves == {StringNode(<<>>), StringNode(Template)}

PartialFunctions(D, R) == UNION {[X -> R] : X \in SUBSET D}

\* TranslationData: key "a" absent, a string, or a nested dictionary whose
\* key "a" is absent or a string.
Dictionaries ==
    PartialFunctions({<<"a">>},
        Leaves \cup {ObjectNode(d) : d \in PartialFunctions({<<"a">>}, Leaves)})

\* translations: a dictionary for some of the languages.
Registries == PartialFunctions(LangCodes, Dictionaries)

\* getText's second argument: omitted, an empty map, or {n: "v"}.
NoParams == [given |-> FALSE, map |-> <<>>]
ParamChoices ==
    {NoParams, [given |-> TRUE, map |-> <<>>],
     [given |-> TRUE, map |-> (<<"n">> :> StringNode(<<"v">>))]}

\* options.fallbackLanguage: a code, or undefined when the caller passes so.
FallbackChoices == LangCodes \cup {Undefined}

NoResult == [value |-> <<>>, invoked |-> <<>>, thrown |-> FALSE]

\* A switcher on language c with both languages added and the given
\* dictionaries; nothing persisted, no automatic translation.
Registered(c, f, reg) ==
    /\ options = [persistLanguage |-> FALSE, autoTranslate |-> FALSE,
                  preserveOriginalText |-> TRUE, translationApi |-> FALSE,
                  fallbackLanguage |-> f]
    /\ env = [hasDocument |-> TRUE, localStorage |-> "ok"]
    /\ storage = Undefined
    /\ dom = [e \in Elements |-> [text |-> Text("Hello", "orig", FALSE),
                                  translated |-> FALSE]]
    /\ availableLanguages =
          addLanguage(addLanguage(<<>>, defaultLanguage, [code |-> defaultLanguage]),
                      "ar", [code |-> "ar"])
    /\ currentLanguage = c
    /\ translations = reg
    /\ onLanguageChange = FALSE
    /\ translationService = FALSE
    /\ originalTexts = <<>>
    /\ detectedContent = <<>>
    /\ documentElement = IF c = defaultLanguage
                         THEN [dir |-> "", dataDirection |-> Undefined]
                         ELSE [dir |-> "ltr", dataDirection |-> "ltr"]
    /\ pending = <<>>
    /\ ev = Quiet

InitText ==
    /\ \E c \in LangCodes, f \in FallbackChoices, reg \in Registries :
          Registered(c, f, reg)
    /\ interpolationFunction = "default"
    /\ call \in [op : {"getText"}, key : Keys, params : ParamChoices,
                 state : {"ready"}, result : {NoResult}]

\* setInterpolationFunction(fn).
SetInterpolationFunction(fn) ==
    /\ call.state = "ready"
    /\ interpolationFunction' = fn
    /\ UNCHANGED <<call, engineVars>>

\* The caller's getText(key, params).
GetText ==
    /\ call.state = "ready"
    /\ call' = [call EXCEPT !.state = "done", !.result = getText(call.key, call.params)]
    /\ UNCHANGED <<interpolationFunction, engineVars>>

NextText ==
    \/ \E fn \in {"default", "dollar"} : SetInterpolationFunction(fn)
    \/ GetText

SpecText == InitText /\ [][NextText]_vars

----------------------------------------------------------------------------
(* defaultInterpolation over bounded inputs *)

\* A template is written as pieces: literal text or a placeholder {{name}}.
Literal(str) == [kind |-> "literal", text |-> str]
Placeholder(name) == [kind |-> "placeholder", text |-> name]

Pieces ==
    {Literal(<<"a">>), Literal(<<"{", "-", "}">>),
     Placeholder(<<"n">>), Placeholder(<<"m">>)}

\* The characters of a template.
RECURSIVE render(_)
render(pieces) ==
    IF pieces = <<>> THEN <<>>
    ELSE (IF Head(pieces).kind = "placeholder"
          THEN <<"{", "{">> \o Head(pieces).text \o <<"}", "}">>
          ELSE Head(pieces).text) \o render(Tail(pieces))

\* The params maps: n absent, a string, the empty string, 0 or 15; m absent
\* or a string.
InterpolationParams ==
    {n @@ m :
        n \in {<<>>} \cup {(<<"n">> :> v) :
                    v \in {StringNode(<<"v">>), StringNode(<<>>),
                           NumberNode(0), NumberNode(15)}},
        m \in {<<>>, (<<"m">> :> StringNode(<<"a">>))}}

InitInterp ==
    /\ Registered(defaultLanguage, "en", <<>>)
    /\ interpolationFunction = "default"
    /\ call \in [op : {"interpolate"}, pieces : SeqsUpTo(Pieces, MaxSegments),
                 params : InterpolationParams, state : {"ready"}, result : {<<>>}]

\* this.interpolationFunction(text, params) with the default function.
Interpolate ==
    /\ call.state = "ready"
    /\ call' = [call EXCEPT
                  !.state = "done",
                  !.result = interpolate(interpolationFunction, render(call.pieces),
                                         call.params)]
    /\ UNCHANGED <<interpolationFunction, engineVars>>

NextInterp == Interpolate

SpecInterp == InitInterp /\ [][NextInterp]_vars

----------------------------------------------------------------------------
(* Claims about setLanguage and the registry *)

\* What a call leaves alone when it has no effect on the switcher.
SwitcherUntouched ==
    UNCHANGED <<currentLanguage, storage, documentElement, dom, originalTexts,
                detectedContent, pending>>

\* C1: setLanguage(code) with a code that no available config carries rejects
\* with the "not available" error, leaves currentLanguage, the storage slot,
\* the document direction (and the page) unchanged, invokes no callback and
\* sends nothing to the translator.
C1_UnavailableLanguageRejected ==
    [][\A l \in CallCodes :
          (SetLanguage(l) /\ ~isLanguageAvailable(availableLanguages, l))
              => /\ ev'.error = NotAvailable(l)
                 /\ ev'.fired = <<>>
                 /\ ev'.batch = <<>>
                 /\ ~ev'.restored
                 /\ SwitcherUntouched]_vars

\* C1 witness: a rejected setLanguage on a switcher that persists, translates
\* automatically, has a callback and is on a non-default language.
C1_Witness ==
    /\ ev.error.message = "Language is not available"
    /\ onLanguageChange /\ awaitsTranslation
    /\ currentLanguage # defaultLanguage
    /\ storage = currentLanguage
    /\ detectedContent # <<>>

\* C2: setLanguage(currentLanguage) resolves and does nothing: no callback,
\* no write to storage, no direction update, no translation or restore.
C2_SameLanguageIsNoOp ==
    [][\A l \in CallCodes :
          (SetLanguage(l) /\ l = currentLanguage)
              => /\ ev'.error = NoError
                 /\ ev'.fired = <<>>
                 /\ ev'.batch = <<>>
                 /\ ~ev'.restored
                 /\ SwitcherUntouched]_vars

\* The callbacks a step invokes and the calls it suspends account for the
\* call `l` it accepts: the callback once with l while currentLanguage is l,
\* or one more suspended call for l and no callback yet.
AcceptedOnce(l) ==
    /\ currentLanguage' = l
    /\ \/ /\ ev'.fired = <<[code |-> l, current |-> l]>>
          /\ pending' = pending
       \/ /\ ev'.fired = <<>>
          /\ Len(pending') = Len(pending) + 1
          /\ pending'[Len(pending')].language = l
          /\ SubSeq(pending', 1, Len(pending)) = pending

NothingFired == ev'.fired = <<>> /\ pending' = pending

\* A suspended call leaves `pending` and its callback is invoked once, with
\* the code of that call.
ResumedOnce ==
    \E i \in DOMAIN pending :
        /\ pending' = SubSeq(pending, 1, i - 1) \o SubSeq(pending, i + 1, Len(pending))
        /\ Len(ev'.fired) = 1
        /\ ev'.fired[1].code = pending[i].language

C4_CurrentLanguageIsAvailable ==
    isLanguageAvailable(availableLanguages, currentLanguage)

\* C5: removeLanguage(defaultLanguage) throws in every state and leaves the
\* configs, the dictionaries, currentLanguage and the rest of the switcher
\* as they were.
C5_DefaultLanguageNeverRemoved ==
    [][RemoveLanguage(defaultLanguage)
          => /\ ev'.error = CannotRemoveDefault(defaultLanguage)
             /\ ev'.fired = <<>>
             /\ UNCHANGED <<availableLanguages, translations>>
             /\ SwitcherUntouched]_vars

\* C5 witness: the throw on a switcher that holds two languages with
\* dictionaries and is on the other language.
C5_Witness ==
    /\ ev.error = CannotRemoveDefault(defaultLanguage)
    /\ Len(availableLanguages) = 2
    /\ DOMAIN translations = LangCodes
    /\ currentLanguage # defaultLanguage

----------------------------------------------------------------------------
(* Claims about setLanguage and the page translation it awaits *)

Resumptions == [1..Cardinality(Elements) -> BOOLEAN]

\* C35: an accepted setLanguage with automatic translation and a translation
\* service fires no callback before its page translation is over: the restore
\* for the default language is done when the call suspends, the answered
\* requests are applied when it resumes, and only then the callback fires,
\* also when every request failed.  Without a translation service setLanguage
\* sends nothing to the translator and writes no element.
C35_TranslationBeforeCallback ==
    [][/\ \A l \in CallCodes :
             (/\ SetLanguage(l)
              /\ isLanguageAvailable(availableLanguages, l) /\ l # currentLanguage)
                => IF options.autoTranslate /\ translationService
                   THEN /\ ev'.fired = <<>>
                        /\ l = defaultLanguage =>
                              \A el \in DOMAIN originalTexts :
                                 /\ dom'[el].text = originalTexts[el]
                                 /\ ~dom'[el].translated
                   ELSE /\ ev'.batch = <<>>
                        /\ ~ev'.restored
                        /\ UNCHANGED <<dom, originalTexts, detectedContent, pending>>
       /\ \A i \in 1..MaxPending, ok \in Resumptions :
             (ResumeSetLanguage(i, ok) /\ onLanguageChange)
                => /\ Len(ev'.fired) = 1
                   /\ ev'.fired[1].code = pending[i].language
                   /\ \A k \in DOMAIN pending[i].requests :
                         ok[k] => dom'[pending[i].requests[k].element] =
                                     [text |-> Translated(pending[i].requests[k].text,
                                                          pending[i].language),
                                      translated |-> TRUE]]_vars

\* C35 witness: the callback has fired on the resumption of a call whose
\* only request failed (the element was given the request's own text).
C35_Witness ==
    /\ ev.outcome = "none"
    /\ Len(ev.fired) = 1
    /\ ev.fired[1].code = "ar"
    /\ \E e \in DOMAIN dom : dom[e].translated /\ dom[e].text.lang = "orig"

\* C37: once every suspended setLanguage has completed, every translated
\* element displays the translation for currentLanguage (or, where its
\* request failed, the text that was sent), never one for another language.
C37_NoStaleTranslation ==
    (call.op = "none" /\ pending = <<>>) =>
        \A el \in DOMAIN dom :
            dom[el].translated => dom[el].text.lang \in {currentLanguage, "orig"}

\* C38: the change callback is invoked with code c only while currentLanguage
\* is c (and so in the order the calls were accepted).
C38_CallbackSeesItsLanguage ==
    call.op = "none" =>
        \A i \in DOMAIN ev.fired : ev.fired[i].current = ev.fired[i].code

\* C40: removeLanguage(L) for a language other than the default leaves no
\* config and no dictionary of L; when L was current, currentLanguage is the
\* default on return and the callback is fired for it once, at once or on
\* resumption; otherwise currentLanguage stays and nothing fires.
C40_RemoveLanguageSwitchesToDefault ==
    [][\A l \in CallCodes \ {defaultLanguage} :
          RemoveLanguage(l)
              => /\ ~isLanguageAvailable(availableLanguages', l)
                 /\ l \notin DOMAIN translations'
                 /\ IF l = currentLanguage
                    THEN /\ currentLanguage' = defaultLanguage
                         /\ onLanguageChange => AcceptedOnce(defaultLanguage)
                    ELSE /\ currentLanguage' = currentLanguage
                         /\ NothingFired]_vars

----------------------------------------------------------------------------
(* Claims about getText and the interpolation *)

\* The value a dotted key names in a dictionary: follow one segment after
\* the other through nested dictionaries.
RECURSIVE ValueAt(_, _)
ValueAt(node, segments) ==
    IF segments = <<>> THEN node
    ELSE IF node.type = "object" /\ Head(segments) \in DOMAIN node.value
    THEN ValueAt(node.value[Head(segments)], Tail(segments))
    ELSE UndefinedNode

\* The key resolves in the dictionary of `language`: it names a string there.
LeafIn(language, key) ==
    IF language \in DOMAIN translations
    THEN ValueAt(ObjectNode(translations[language]), split(key))
    ELSE UndefinedNode

ResolvesIn(language, key) == LeafIn(language, key).type = "string"

FallbackConfigured ==
    options.fallbackLanguage # Undefined /\ options.fallbackLanguage # currentLanguage

\* What getText is to return for a template: interpolated when params are
\* passed, raw otherwise.
Rendering(template, p) ==
    IF p.given THEN interpolate(interpolationFunction, template, p.map) ELSE template

Returned == call.op = "getText" /\ call.state = "done"

\* C6: a key that resolves neither in the current nor in the fallback
\* dictionary comes back unchanged, with or without params, without a throw
\* (and without a call of the interpolation function), also when the current
\* language has no dictionary.
C6_MissingKeyReturnsKey ==
    (/\ Returned
     /\ ~ResolvesIn(currentLanguage, call.key)
     /\ (options.fallbackLanguage = Undefined
            \/ ~ResolvesIn(options.fallbackLanguage, call.key)))
        => /\ ~call.result.thrown
           /\ call.result.value = call.key
           /\ call.result.invoked = <<>>

\* C6 witness: a two-segment key that runs past a string leaf of the current
\* dictionary, params passed, the fallback language without a dictionary.
C6_Witness ==
    /\ Returned
    /\ call.params.given
    /\ Len(split(call.key)) = 2
    /\ ResolvesIn(currentLanguage, <<call.key[1]>>)
    /\ LeafIn(currentLanguage, <<call.key[1]>>).value # <<>>
    /\ ~ResolvesIn(currentLanguage, call.key)
    /\ options.fallbackLanguage # Undefined
    /\ options.fallbackLanguage \notin DOMAIN translations
    /\ call.result.value = call.key

C8_CurrentValueReturned ==
    (Returned /\ ResolvesIn(currentLanguage, call.key))
        => call.result.value =
              Rendering(LeafIn(currentLanguage, call.key).value, call.params)

\* The three ways a dotted key misses in a language that has a dictionary:
\* its walk ends at a nested dictionary, it has segments left after a string
\* leaf, or one of its segments is absent.
EndsAtDictionary(language, key) == LeafIn(language, key).type = "object"

RunsPastLeaf(language, key) ==
    \E i \in 1..(Len(split(key)) - 1) :
       ValueAt(ObjectNode(translations[language]), SubSeq(split(key), 1, i)).type = "string"

SegmentAbsent(language, key) ==
    LeafIn(language, key).type = "undefined" /\ ~RunsPastLeaf(language, key)

MissesIn(language, key) ==
    /\ language \in DOMAIN translations
    /\ \/ EndsAtDictionary(language, key)
       \/ RunsPastLeaf(language, key)
       \/ SegmentAbsent(language, key)

\* C22: a key that misses in the current dictionary in one of these three
\* ways is not found there: getText, without a throw, returns the fallback's
\* value when a fallback language is consulted and the key names a string
\* there, and the key otherwise (also when it misses in the fallback in one of
\* the three ways).
C22_MissIsNotFound ==
    (Returned /\ MissesIn(currentLanguage, call.key))
        => /\ ~call.result.thrown
           /\ call.result.value =
                 IF FallbackConfigured /\ ResolvesIn(options.fallbackLanguage, call.key)
                 THEN Rendering(LeafIn(options.fallbackLanguage, call.key).value,
                                call.params)
                 ELSE call.key

\* The template getText finds for the key, if any.
Resolved ==
    \/ ResolvesIn(currentLanguage, call.key)
    \/ (FallbackConfigured /\ ResolvesIn(options.fallbackLanguage, call.key))

FoundTemplate ==
    IF ResolvesIn(currentLanguage, call.key)
    THEN LeafIn(currentLanguage, call.key).value
    ELSE LeafIn(options.fallbackLanguage, call.key).value

\* C10: getText calls the installed interpolation function, once, exactly
\* when the key resolves and params are passed (an empty map included) and
\* returns its result; without params it makes no call and returns the raw
\* template.
C10_InterpolationIffParams ==
    Returned =>
        /\ call.result.invoked =
              IF Resolved /\ call.params.given
              THEN <<[fn |-> interpolationFunction, text |-> FoundTemplate,
                      params |-> call.params.map]>>
              ELSE <<>>
        /\ (Resolved /\ call.params.given) =>
              call.result.value =
                  interpolate(interpolationFunction, FoundTemplate, call.params.map)
        /\ (Resolved /\ ~call.params.given) => call.result.value = FoundTemplate

\* What the default interpolation is to produce, piece by piece: a
\* placeholder whose name is a key of params becomes the string form of the
\* value, every other piece stays as written.
RECURSIVE Interpolated(_, _)
Interpolated(pieces, params) ==
    IF pieces = <<>> THEN <<>>
    ELSE (IF Head(pieces).kind = "placeholder" /\ Head(pieces).text \in DOMAIN params
          THEN toString(params[Head(pieces).text])
          ELSE render(<<Head(pieces)>>)) \o Interpolated(Tail(pieces), params)

\* C9: the default interpolation replaces every {{name}} whose name is a key
\* of params by the string form of the value (0 and the empty string
\* included) and leaves every other placeholder verbatim.
C9_EveryPlaceholderReplaced ==
    (call.op = "interpolate" /\ call.state = "done")
        => call.result = Interpolated(call.pieces, call.params)

----------------------------------------------------------------------------
(* addTranslations over bounded dictionaries *)

MaxCalls == 2      \* most addTranslations calls in one behaviour

\* The top-level keys and the values callers add: two strings and two nested
\* dictionaries with different keys.
MergeKeys == {<<"a">>, <<"b">>}

MergeValues ==
    {StringNode(<<"v">>), StringNode(<<"m">>),
     ObjectNode(<<"a">> :> StringNode(<<"v">>)),
     ObjectNode(<<"b">> :> StringNode(<<"m">>))}

MergeData == PartialFunctions(MergeKeys, MergeValues)

\* addTranslations replacing the language's dictionary by the new data.
addTranslations_Replaces(trans, language, data) ==
    (language :> data) @@ trans

\* addTranslations merging nested dictionaries key by key.
addTranslations_DeepMerges(trans, language, data) ==
    LET old == IF language \in DOMAIN trans THEN trans[language] ELSE <<>>
        both == {k \in DOMAIN data \cap DOMAIN old :
                    data[k].type = "object" /\ old[k].type = "object"}
    IN  (language :> ([k \in both |-> ObjectNode(data[k].value @@ old[k].value)]
                        @@ data @@ old)) @@ trans

\* addTranslations(language, data):
\* translations[language] = {...translations[language], ...data}.
addTranslations(trans, language, data) ==
    LET old == IF language \in DOMAIN trans THEN trans[language] ELSE <<>>
    IN  (language :> (data @@ old)) @@ trans

InitMerge ==
    /\ \E c \in LangCodes : Registered(c, "en", <<>>)
    /\ interpolationFunction = "default"
    /\ call = [op |-> "addTranslations", calls |-> <<>>]

\* The caller's addTranslations(language, data); `call` keeps the calls made.
AddTranslationsData(language, data) ==
    /\ call.op = "addTranslations"
    /\ Len(call.calls) < MaxCalls
    /\ translations' = addTranslations(translations, language, data)
    /\ call' = [call EXCEPT !.calls = Append(@, [language |-> language, data |-> data,
                                                 before |-> translations])]
    /\ UNCHANGED <<currentLanguage, availableLanguages, onLanguageChange, options,
                   translationService, originalTexts, detectedContent, env, storage,
                   documentElement, dom, pending, ev, interpolationFunction>>

NextMerge == \E l \in LangCodes, data \in MergeData : AddTranslationsData(l, data)

SpecMerge == InitMerge /\ [][NextMerge]_vars

----------------------------------------------------------------------------
(* Claims about the registry's collections *)

\* The value the top-level key k has for a language (undefined when absent).
TopLevel(trans, language, k) ==
    IF language \in DOMAIN trans /\ k \in DOMAIN trans[language]
    THEN trans[language][k] ELSE UndefinedNode

\* The last two calls were made for the same language.
BothAdded ==
    /\ call.op = "addTranslations"
    /\ Len(call.calls) >= 2
    /\ call.calls[Len(call.calls) - 1].language = call.calls[Len(call.calls)].language

\* C11: after addTranslations(lang, A) then addTranslations(lang, B) every
\* top-level key of B has B's value, every top-level key of A that is not a
\* key of B still has A's value, and the second call leaves the dictionaries
\* of the other languages as they were.
C11_TopLevelMerge ==
    BothAdded =>
        LET n == Len(call.calls)
            lang == call.calls[n].language
            A == call.calls[n - 1].data
            B == call.calls[n].data
        IN  /\ \A k \in DOMAIN B : TopLevel(translations, lang, k) = B[k]
            /\ \A k \in (DOMAIN A) \ (DOMAIN B) : TopLevel(translations, lang, k) = A[k]
            /\ \A l \in LangCodes \ {lang}, k \in MergeKeys :
                  TopLevel(translations, l, k) = TopLevel(call.calls[n].before, l, k)

\* C11 witness: A adds "a", B adds "b" only, both are there afterwards.
C11_Witness ==
    /\ BothAdded
    /\ Len(call.calls) = 2
    /\ DOMAIN call.calls[1].data = {<<"a">>}
    /\ DOMAIN call.calls[2].data = {<<"b">>}
    /\ DOMAIN translations[call.calls[1].language] = MergeKeys

\* C23: addTranslations does not merge nested dictionaries: after
\* addTranslations(lang, A) then addTranslations(lang, B), for a top-level key
\* of B that held a nested dictionary in A, a nested key of that dictionary
\* which B's value does not have no longer resolves in lang.
C23_NestedSubtreeReplaced ==
    BothAdded =>
        LET n == Len(call.calls)
            lang == call.calls[n].language
            A == call.calls[n - 1].data
            B == call.calls[n].data
        IN  \A k \in DOMAIN A \cap DOMAIN B :
               A[k].type = "object" =>
                  \A j \in DOMAIN A[k].value :
                     (B[k].type # "object" \/ j \notin DOMAIN B[k].value)
                        => walk(ObjectNode(translations[lang]), <<k, j>>, 1).type
                              = "undefined"

\* C23 witness: A = {a: {a: "v"}}, B = {a: {b: "m"}}; "a.b" resolves, "a.a"
\* does not.
C23_Witness ==
    /\ BothAdded
    /\ call.calls[1].data = (<<"a">> :> ObjectNode(<<"a">> :> StringNode(<<"v">>)))
    /\ call.calls[2].data = (<<"a">> :> ObjectNode(<<"b">> :> StringNode(<<"m">>)))
    /\ LET dict == ObjectNode(translations[call.calls[2].language])
       IN  /\ walk(dict, <<<<"a">>, <<"b">>>>, 1) = StringNode(<<"m">>)
           /\ walk(dict, <<<<"a">>, <<"a">>>>, 1).type = "undefined"

\* getLanguageConfig(language): the first config with the code, or undefined.
NoConfig == [code |-> Undefined]

getLanguageConfig(avail, language) ==
    IF findIndex(avail, language) = 0 THEN NoConfig
    ELSE avail[findIndex(avail, language)]

\* C12: addLanguage(code, config) with an available code puts the new config,
\* whole, in the place of the old one, the array keeps its length and every
\* other entry, and getLanguageConfig(code) returns the new config; with a
\* code that is not available it appends one entry.
C12_AddLanguageReplacesOrAppends ==
    [][\A l \in CallCodes, c \in Configs :
          AddLanguage(l, c) =>
              IF isLanguageAvailable(availableLanguages, l)
              THEN /\ Len(availableLanguages') = Len(availableLanguages)
                   /\ availableLanguages' =
                         [availableLanguages EXCEPT
                             ![findIndex(availableLanguages, l)] = c]
                   /\ getLanguageConfig(availableLanguages', l) = c
              ELSE availableLanguages' = Append(availableLanguages, c)]_vars

\* getAvailableLanguageCodes(): availableLanguages.map(lang => lang.code).
getAvailableLanguageCodes(avail) == [i \in DOMAIN avail |-> avail[i].code]

\* C13: getAvailableLanguageCodes() lists every available code once, with
\* no duplicates, and isLanguageAvailable(c) is true exactly for the codes
\* of the list.
C13_CodesListedOnce ==
    LET codes == getAvailableLanguageCodes(availableLanguages)
    IN  /\ \A i, j \in DOMAIN codes : codes[i] = codes[j] => i = j
        /\ \A c \in CallCodes :
              isLanguageAvailable(availableLanguages, c)
                  <=> \E i \in DOMAIN codes : codes[i] = c

\* The rtl flag of the configs registered under a code: that of the first
\* such config, FALSE when the flag or the config is missing.
RegisteredFlag(avail, language) ==
    LET places == {i \in DOMAIN avail : avail[i].code = language}
    IN  IF places = {} THEN FALSE
        ELSE LET first == CHOOSE i \in places : \A j \in places : i <= j
             IN  "rtl" \in DOMAIN avail[first] /\ avail[first].rtl

\* C14: isRTL() is the rtl flag of the config registered for currentLanguage,
\* FALSE when unset, in every state; so also right after the current language
\* is added again with another flag.
C14_IsRTLFollowsConfig ==
    isRTL(availableLanguages, currentLanguage)
        = RegisteredFlag(availableLanguages, currentLanguage)

\* C14 witness: the current language was added again with rtl set after the
\* document direction was written as ltr, and isRTL() is true.
C14_Witness ==
    /\ documentElement.dir = "ltr"
    /\ getLanguageConfig(availableLanguages, currentLanguage)
          = [code |-> currentLanguage, rtl |-> TRUE]
    /\ isRTL(availableLanguages, currentLanguage)

\* C24: in a DOM environment every accepted setLanguage(code) leaves the
\* document's dir and data-direction attributes both at 'rtl' when the config
\* registered for the target has rtl set and both at 'ltr' otherwise; a
\* rejected or same-language call leaves both as they were.
C24_DirectionFollowsTarget ==
    [][\A l \in CallCodes :
          (SetLanguage(l) /\ env.hasDocument)
              => IF isLanguageAvailable(availableLanguages, l) /\ l # currentLanguage
                 THEN LET direction == IF RegisteredFlag(availableLanguages, l)
                                       THEN "rtl" ELSE "ltr"
                      IN  documentElement' =
                             [dir |-> direction, dataDirection |-> direction]
                 ELSE documentElement' = documentElement]_vars

\* C24 witness: back on a left-to-right language after a right-to-left one.
C24_Witness ==
    /\ env.hasDocument
    /\ ev.outcome = "switch"
    /\ documentElement = [dir |-> "rtl", dataDirection |-> "rtl"]
    /\ currentLanguage = "ar"
    /\ storage = "ar"

\* C25: with persistence on, an accepted setLanguage(code) completes without
\* error whatever the storage does: currentLanguage is the code, the direction
\* is that of the code, the callback (when assigned) fires with the code; and
\* where the storage works the slot holds the code after the call.
C25_StorageFailureSuppressed ==
    [][\A l \in CallCodes :
          (/\ SetLanguage(l)
           /\ options.persistLanguage
           /\ isLanguageAvailable(availableLanguages, l) /\ l # currentLanguage)
              => /\ ev'.error = NoError
                 /\ currentLanguage' = l
                 /\ (env.hasDocument =>
                        documentElement'.dir = IF RegisteredFlag(availableLanguages, l)
                                               THEN "rtl" ELSE "ltr")
                 /\ (onLanguageChange /\ ~awaitsTranslation)
                        => ev'.fired = <<[code |-> l, current |-> l]>>
                 /\ storage' = IF env.localStorage = "ok" THEN l ELSE storage]_vars

\* C25 witness: a switch completed, callback fired, on a host whose storage
\* throws.
C25_Witness ==
    /\ options.persistLanguage
    /\ env.localStorage = "throws"
    /\ ev.outcome = "switch"
    /\ ev.fired # <<>>
    /\ currentLanguage = "ar"
    /\ storage # "ar"

----------------------------------------------------------------------------
(* Persistence across constructions *)

\* A caller constructs a switcher anew with the same options, on the same
\* host and over the same storage slot (a page load): the constructor runs
\* again and only the slot carries over.
Reconstruct ==
    LET avail == addLanguage(<<>>, defaultLanguage, [code |-> defaultLanguage])
    IN  /\ availableLanguages' = avail
        /\ currentLanguage' =
              IF options.persistLanguage
              THEN loadPersistedLanguage(avail, defaultLanguage, storage, env)
              ELSE defaultLanguage
        /\ translations' = <<>>
        /\ onLanguageChange' = FALSE
        /\ translationService' = options.translationApi
        /\ originalTexts' = <<>>
        /\ detectedContent' = IF options.autoTranslate /\ env.hasDocument
                              THEN detect(dom, <<>>) ELSE <<>>
        /\ documentElement' = [dir |-> "", dataDirection |-> Undefined]
        /\ pending' = <<>>
        /\ ev' = [Quiet EXCEPT !.outcome = "constructed"]
        /\ UNCHANGED <<options, env, storage, dom>>

InitPersist ==
    InitWith({c \in Constructions(FALSE) : c.e.hasDocument})

NextPersist ==
    \/ \E l \in CallCodes : SetLanguage(l) /\ UNCHANGED textVars
    \/ \E c \in Configs : AddLanguage(c.code, c) /\ UNCHANGED textVars
    \/ Reconstruct /\ UNCHANGED textVars

SpecPersist == InitPersist /\ [][NextPersist]_vars

\* C15: with persistLanguage on and a working localStorage, a switcher
\* constructed right after an accepted setLanguage(code) starts with that
\* code as its currentLanguage.
C15_SavedLanguageRestored ==
    [][(/\ Reconstruct
        /\ ev.outcome = "switch"
        /\ options.persistLanguage
        /\ env.localStorage = "ok") => currentLanguage' = currentLanguage]_vars

----------------------------------------------------------------------------
(* The page: translatePage and restoreOriginalText as callers invoke them *)

NotConfigured == [message |-> "Translation service not configured", language |-> ""]

\* The elements a batch's responses are applied to: those answered with a
\* non-empty text.
applied(requests, responses) ==
    {requests[i].element : i \in {j \in DOMAIN responses : responses[j] # EmptyText}}

\* `call` under SpecPage: the page at construction, the page when the last
\* translatePage was called, the elements that call wrote, and what happened
\* last ("overlapped" once calls ran into one another).
PageIdle(d) ==
    /\ interpolationFunction = "default"
    /\ call = [op |-> "page", original |-> d, before |-> d, touched |-> {},
               last |-> "none", threw |-> FALSE]

\* `targetLanguage || this.currentLanguage`: the argument, when one is passed.
targetOf(language) == IF language = Undefined THEN currentLanguage ELSE language

\* The guard of translatePage and translateElement never finding the service
\* missing.
translationServiceMissing_Never == FALSE

\* `!this.translationService`, the guard of translatePage and translateElement.
translationServiceMissing == ~translationService

\* A caller invokes translatePage(language): a throw without a translation
\* service, a restore for the default language, otherwise the batch request
\* for the detected content, awaited.
TranslatePage(language) ==
    /\ call.op = "page"
    /\ IF translationServiceMissing
       THEN /\ ev' = [Quiet EXCEPT !.error = NotConfigured]
            /\ call' = [call EXCEPT !.threw = TRUE]
            /\ UNCHANGED <<dom, originalTexts, detectedContent, pending>>
       ELSE LET tp == translatePage(targetOf(language))
            IN  /\ Len(pending) + (IF tp.requests = <<>> THEN 0 ELSE 1) <= MaxPending
                /\ \A i \in DOMAIN pending : "single" \notin DOMAIN pending[i]
                /\ dom' = tp.page.dom
                /\ originalTexts' = tp.page.orig
                /\ detectedContent' = tp.page.det
                /\ pending' = IF tp.requests = <<>> THEN pending
                              ELSE Append(pending, [language |-> targetOf(language),
                                                    requests |-> tp.requests])
                /\ ev' = [Quiet EXCEPT !.batch = tp.requests, !.restored = tp.restored]
                /\ call' = IF pending # <<>> THEN [call EXCEPT !.last = "overlapped"]
                           ELSE IF tp.restored THEN [call EXCEPT !.last = "restored"]
                           ELSE [call EXCEPT !.before = dom, !.touched = {},
                                             !.last = IF tp.requests = <<>>
                                                      THEN "translated"
                                                      ELSE "translating"]
    /\ UNCHANGED <<currentLanguage, availableLanguages, translations, onLanguageChange,
                   options, translationService, env, storage, documentElement,
                   interpolationFunction>>

\* The batch of a suspended translatePage has answered: translateContent
\* applies the responses and translatePage returns.
ResumeTranslatePage(i, ok) ==
    /\ call.op = "page"
    /\ i \in DOMAIN pending
    /\ "single" \notin DOMAIN pending[i]
    /\ LET t == pending[i]
           responses == translateBatch(t.requests, ok)
           p == applyResponses(Page, t.requests, responses, 1)
       IN  /\ dom' = p.dom
           /\ originalTexts' = p.orig
           /\ detectedContent' = p.det
           /\ pending' = SubSeq(pending, 1, i - 1) \o SubSeq(pending, i + 1, Len(pending))
           /\ ev' = Quiet
           /\ call' = IF call.last = "translating"
                      THEN [call EXCEPT !.last = "translated",
                                        !.touched = applied(t.requests, responses)]
                      ELSE call
    /\ UNCHANGED <<currentLanguage, availableLanguages, translations, onLanguageChange,
                   options, translationService, env, storage, documentElement,
                   interpolationFunction>>

\* A caller invokes restoreOriginalText().
RestoreOriginalText ==
    /\ call.op = "page"
    /\ LET p == restoreOriginalText(Page)
       IN  /\ dom' = p.dom
           /\ originalTexts' = p.orig
           /\ detectedContent' = p.det
    /\ ev' = [Quiet EXCEPT !.restored = TRUE]
    /\ call' = [call EXCEPT !.last = IF pending = <<>> THEN "restored" ELSE "overlapped"]
    /\ UNCHANGED <<currentLanguage, availableLanguages, translations, onLanguageChange,
                   options, translationService, env, storage, documentElement, pending,
                   interpolationFunction>>

\* A caller invokes translateElement(element, language): the same guard, a
\* restore of the one element for the default language, otherwise one
\* translate() request for the text the element shows, awaited.
TranslateElement(el, language) ==
    /\ call.op = "page"
    /\ IF translationServiceMissing
       THEN /\ ev' = [Quiet EXCEPT !.error = NotConfigured]
            /\ call' = [call EXCEPT !.threw = TRUE]
            /\ UNCHANGED <<dom, originalTexts, detectedContent, pending>>
       ELSE IF targetOf(language) = defaultLanguage
       THEN LET p == restoreElementText(Page, el)
            IN  /\ dom' = p.dom
                /\ originalTexts' = p.orig
                /\ detectedContent' = p.det
                /\ ev' = [Quiet EXCEPT !.restored = TRUE]
                /\ call' = [call EXCEPT !.last = "overlapped"]
                /\ UNCHANGED pending
       ELSE LET text == extractElementText(dom, el)
                request == [text |-> text, fromLanguage |-> defaultLanguage,
                            toLanguage |-> targetOf(language), element |-> el]
                sends == text # EmptyText /\ isTranslatableText(text)
            IN  /\ pending = <<>>
                /\ pending' = IF sends
                              THEN Append(pending, [language |-> targetOf(language),
                                                    requests |-> <<request>>,
                                                    single |-> TRUE])
                              ELSE pending
                /\ ev' = [Quiet EXCEPT !.batch = IF sends THEN <<request>> ELSE <<>>]
                /\ call' = [call EXCEPT !.last = "overlapped"]
                /\ UNCHANGED <<dom, originalTexts, detectedContent>>
    /\ UNCHANGED <<currentLanguage, availableLanguages, translations, onLanguageChange,
                   options, translationService, env, storage, documentElement,
                   interpolationFunction>>

\* The translate() call of a suspended translateElement has answered: the
\* translation is applied and marked, a failure is caught and dropped.
ResumeTranslateElement(i, ok) ==
    /\ call.op = "page"
    /\ i \in DOMAIN pending
    /\ "single" \in DOMAIN pending[i]
    /\ LET request == pending[i].requests[1]
           tt == batchResponse(request, TRUE).translatedText
           p == IF ok
                THEN [applyTranslation(Page, request.element, tt) EXCEPT
                         !.det = markAsTranslated(detectedContent, request.element, tt)]
                ELSE Page
       IN  /\ dom' = p.dom
           /\ originalTexts' = p.orig
           /\ detectedContent' = p.det
    /\ pending' = SubSeq(pending, 1, i - 1) \o SubSeq(pending, i + 1, Len(pending))
    /\ ev' = Quiet
    /\ call' = [call EXCEPT !.last = "overlapped"]
    /\ UNCHANGED <<currentLanguage, availableLanguages, translations, onLanguageChange,
                   options, translationService, env, storage, documentElement,
                   interpolationFunction>>

\* The page empties an untranslated element, `el.textContent = ''` (the
\* observer sees no added element).
EmptyElement(el) ==
    /\ call.op = "page"
    /\ ~dom[el].translated
    /\ dom[el].text # EmptyText
    /\ dom' = [dom EXCEPT ![el].text = EmptyText]
    /\ call' = [call EXCEPT !.original = [@ EXCEPT ![el].text = EmptyText],
                            !.last = IF @ = "translating" THEN "overlapped" ELSE @]
    /\ ev' = Quiet
    /\ UNCHANGED <<currentLanguage, availableLanguages, translations, onLanguageChange,
                   options, translationService, originalTexts, detectedContent, env,
                   storage, documentElement, pending, interpolationFunction>>

\* A switcher with automatic translation constructed on a page.
InitPage ==
    \E c \in {x \in Constructions(TRUE) :
                 /\ x.e.hasDocument /\ x.e.localStorage = "ok"
                 /\ x.o.persistLanguage /\ x.stored = Undefined},
       d \in [Elements -> [text : PageTexts, translated : {FALSE}]] :
          /\ Construct(c.o, c.e, c.stored, d)
          /\ PageIdle(d)

NextPage ==
    \/ \E l \in CallCodes \cup {Undefined} : TranslatePage(l)
    \/ \E i \in 1..MaxPending, ok \in [1..Cardinality(DOMAIN dom) -> BOOLEAN] :
          ResumeTranslatePage(i, ok)
    \/ \E el \in DOMAIN dom, l \in LangCodes \cup {Undefined} : TranslateElement(el, l)
    \/ \E i \in 1..MaxPending, ok \in BOOLEAN : ResumeTranslateElement(i, ok)
    \/ RestoreOriginalText
    \/ \E el \in DOMAIN dom : EmptyElement(el)
    \/ SetTranslationApi /\ UNCHANGED textVars

SpecPage == InitPage /\ [][NextPage]_vars

\* The same switcher on a page of two elements, with or without a
\* translation service.
InitElements ==
    \E api \in BOOLEAN :
       LET d == [el \in {"e1", "e2"} |->
                    [text |-> Text("Hello", "orig", FALSE), translated |-> FALSE]]
       IN  /\ Construct([persistLanguage |-> TRUE, autoTranslate |-> TRUE,
                         preserveOriginalText |-> TRUE, translationApi |-> api,
                         fallbackLanguage |-> "en"],
                        [hasDocument |-> TRUE, localStorage |-> "ok"], Undefined, d)
           /\ PageIdle(d)

\* Its callers translate element by element and return to the default
\* language with translatePage.
NextElements ==
    \/ \E el \in DOMAIN dom, l \in LangCodes \cup {Undefined} : TranslateElement(el, l)
    \/ \E i \in 1..MaxPending, ok \in BOOLEAN : ResumeTranslateElement(i, ok)
    \/ \E l \in {defaultLanguage, Undefined} : TranslatePage(l)
    \/ \E el \in DOMAIN dom : EmptyElement(el)
    \/ SetTranslationApi /\ UNCHANGED textVars

SpecElements == InitElements /\ [][NextElements]_vars

----------------------------------------------------------------------------
(* Claims about the translated page *)

\* C16: with preserveOriginalText on, restoreOriginalText() right after a
\* completed translatePage(lang) gives every element that translation wrote
\* exactly the text it displayed when translatePage was called, white space
\* included.
C16_RestoreRoundTrip ==
    [][(/\ RestoreOriginalText
        /\ call.last = "translated"
        /\ options.preserveOriginalText)
          => \A el \in call.touched : dom'[el].text = call.before[el].text]_vars

\* The same wording in the same language: equal up to white space.
SameWording(t, u) == t.src = u.src /\ t.lang = u.lang

\* C17: the snapshot entry of an element holds the text the element displayed
\* before any translation, whatever was translated since; here up to white
\* space, which is the matter of C16.
C17_SnapshotIsOriginal ==
    call.op = "page" =>
        \A el \in DOMAIN originalTexts :
            SameWording(originalTexts[el], call.original[el].text)

\* C21: translatePage and translateElement called while no translation
\* service is configured throw 'Translation service not configured' and leave
\* every element, the snapshot, the detector's records, currentLanguage and the
\* requests in flight as they were, so that the instance goes on from the very
\* state it had (C21_Witness: a translation applied after setTranslationApi).
C21_NotConfiguredThrowsAndKeepsState ==
    [][(/\ ~translationService
        /\ \/ \E l \in CallCodes \cup {Undefined} : TranslatePage(l)
           \/ \E el \in DOMAIN dom, l \in LangCodes \cup {Undefined} :
                 TranslateElement(el, l))
          => /\ ev'.error = NotConfigured
             /\ UNCHANGED <<dom, originalTexts, detectedContent, currentLanguage,
                            availableLanguages, translations, pending>>]_vars

C21_Witness ==
    /\ call.op = "page"
    /\ call.threw
    /\ translationService
    /\ \E el \in DOMAIN dom : dom[el].translated

\* What restoring the snapshot entry of el gives: the element shows the
\* snapshot text, untranslated, and the entry is gone.
Restored(el) ==
    /\ dom'[el] = [text |-> originalTexts[el], translated |-> FALSE]
    /\ el \notin DOMAIN originalTexts'

\* C26: with a translation service, translatePage(target) and
\* translateElement(el, target) whose target (the argument, or currentLanguage
\* when it is omitted) is the default language send nothing to the translator;
\* translatePage restores every snapshot entry, translateElement restores the
\* entry of el and leaves every other element and entry alone.
C26_DefaultTargetRestores ==
    [][translationService =>
        /\ \A l \in CallCodes \cup {Undefined} :
              (TranslatePage(l) /\ targetOf(l) = defaultLanguage)
                => /\ ev'.batch = <<>>
                   /\ pending' = pending
                   /\ \A el \in DOMAIN originalTexts : Restored(el)
        /\ \A el \in DOMAIN dom, l \in LangCodes \cup {Undefined} :
              (TranslateElement(el, l) /\ targetOf(l) = defaultLanguage)
                => /\ ev'.batch = <<>>
                   /\ pending' = pending
                   /\ el \in DOMAIN originalTexts => Restored(el)
                   /\ \A o \in (DOMAIN dom) \ {el} :
                         /\ dom'[o] = dom[o]
                         /\ o \in DOMAIN originalTexts
                              => /\ o \in DOMAIN originalTexts'
                                 /\ originalTexts'[o] = originalTexts[o]]_vars

\* C39: the record of every tracked element is flagged translated exactly
\* when the element carries the translated marker; so no record is flagged
\* after restoreOriginalText() has restored its element.
C39_FlagFollowsMarker ==
    call.op = "page" =>
        \A i \in DOMAIN detectedContent :
            detectedContent[i].isTranslated = dom[detectedContent[i].element].translated

----------------------------------------------------------------------------
(* ContentDetector.detect over bounded documents *)

MaxRun == 2        \* detect() calls in a row that are counted

\* A document of three nested elements: e2 is a child of e1, e3 of e2.
DetectElements == {"e1", "e2", "e3"}

ParentOf == ("e1" :> Undefined) @@ ("e2" :> "e1") @@ ("e3" :> "e2")

\* The texts of its elements: translatable, empty, or a lone digit.
DetectTexts == {Text("Hello", "orig", FALSE), EmptyText, Text("7", "orig", FALSE)}

Documents ==
    {[el \in DetectElements |->
         [text |-> t[el], translated |-> FALSE, deny |-> k[el], parent |-> ParentOf[el]]] :
       t \in [DetectElements -> DetectTexts], k \in [DetectElements -> BOOLEAN]}

\* A detector (the one a switcher without automatic translation owns) on a
\* document; `call` keeps what the last detect() returned and how many
\* detect() calls were made in a row since the document or the records changed.
InitDetect ==
    /\ \E d \in Documents :
          Construct([persistLanguage |-> FALSE, autoTranslate |-> FALSE,
                     preserveOriginalText |-> TRUE, translationApi |-> FALSE,
                     fallbackLanguage |-> "en"],
                    [hasDocument |-> TRUE, localStorage |-> "ok"], Undefined, d)
    /\ interpolationFunction = "default"
    /\ call = [op |-> "detect", returned |-> <<>>, run |-> 0]

\* A caller invokes detect().
Detect ==
    /\ call.op = "detect"
    /\ LET det == IF env.hasDocument THEN detect(dom, detectedContent)
                  ELSE detectedContent
       IN  /\ detectedContent' = det
           /\ call' = [call EXCEPT
                         !.returned = SubSeq(det, Len(detectedContent) + 1, Len(det)),
                         !.run = IF @ < MaxRun THEN @ + 1 ELSE @]
    /\ UNCHANGED <<currentLanguage, availableLanguages, translations, onLanguageChange,
                   options, translationService, originalTexts, env, storage,
                   documentElement, dom, pending, ev, interpolationFunction>>

\* The page changes an element: its text, or whether it matches a deny rule.
ChangeDocument(el, text, deny) ==
    /\ call.op = "detect"
    /\ dom' = [dom EXCEPT ![el].text = text, ![el].deny = deny]
    /\ dom' # dom
    /\ call' = [call EXCEPT !.run = 0]
    /\ UNCHANGED <<currentLanguage, availableLanguages, translations, onLanguageChange,
                   options, translationService, originalTexts, detectedContent, env,
                   storage, documentElement, pending, ev, interpolationFunction>>

\* A caller invokes clear().
Clear ==
    /\ call.op = "detect"
    /\ detectedContent' = <<>>
    /\ call' = [call EXCEPT !.run = 0]
    /\ UNCHANGED <<currentLanguage, availableLanguages, translations, onLanguageChange,
                   options, translationService, originalTexts, env, storage,
                   documentElement, dom, pending, ev, interpolationFunction>>

NextDetect ==
    \/ Detect
    \/ \E el \in DetectElements, t \in DetectTexts, k \in BOOLEAN : ChangeDocument(el, t, k)
    \/ Clear

SpecDetect == InitDetect /\ [][NextDetect]_vars

----------------------------------------------------------------------------
(* Claims about the detector *)

ElementsOf(records) == {records[i].element : i \in DOMAIN records}

\* C18: detect() returns no element that is already tracked, returns nothing
\* when it is called again with no change in between, and leaves at most one
\* record per element.
C18_DetectReturnsOnlyNew ==
    [][Detect =>
          /\ ElementsOf(call'.returned) \cap ElementsOf(detectedContent) = {}
          /\ (call.run > 0 => call'.returned = <<>>)
          /\ \A i, j \in DOMAIN detectedContent' :
                detectedContent'[i].element = detectedContent'[j].element => i = j]_vars

\* C18 witness: the second of two detect() calls in a row has returned
\* nothing while the first one's records are tracked.
C18_Witness ==
    /\ call.op = "detect"
    /\ call.run = 2
    /\ call.returned = <<>>
    /\ Len(detectedContent) >= 2

\* The element and its ancestors, by the parent relation of the document.
RECURSIVE SelfAndAncestors(_, _)
SelfAndAncestors(d, el) ==
    IF el = Undefined THEN {}
    ELSE {el} \cup SelfAndAncestors(d, d[el].parent)

Denied(d, el) == \E a \in SelfAndAncestors(d, el) : d[a].deny \/ d[a].translated

----------------------------------------------------------------------------
(* ContentDetector.watch: the MutationObserver callback *)

MaxQueue == 2      \* most mutation records waiting for the observer callback

\* The elements of the watched documents: e2 is a child of e1.
WatchElements == {"e1", "e2"}

\* The texts of their text nodes: two translatable ones and the empty one.
WatchTexts == {Text("Hello", "orig", FALSE), Text("World", "orig", FALSE), EmptyText}

\* isTranslatableElement(element): the element matches a content selector,
\* as every element of these documents does.
isTranslatableElement(d, el) == el \in DOMAIN d

\* element.contains(el), el another element.
RECURSIVE isDescendant(_, _, _)
isDescendant(d, el, root) ==
    /\ parentElement(d, el) # Undefined
    /\ \/ parentElement(d, el) = root
       \/ isDescendant(d, parentElement(d, el), root)

\* The record detectContentInElement and the observer callback create.
newRecord(d, el) ==
    [element |-> el, originalText |-> extractElementText(d, el),
     translatedText |-> NoText, isTranslated |-> FALSE]

hasTranslatableText(d, el) ==
    /\ isTranslatableElement(d, el)
    /\ extractElementText(d, el) # EmptyText
    /\ isTranslatableText(extractElementText(d, el))

\* detectContentInElement(element): a fresh item for the element and for each
\* of its descendants (element.querySelectorAll('*')) with translatable text.
detectContentInElement(d, root) ==
    LET items(els) == [i \in DOMAIN els |-> newRecord(d, els[i])]
    IN  items(SelectSeq(<<root>>, LAMBDA el : hasTranslatableText(d, el)))
          \o items(SelectSeq(querySelectorAll(d),
                             LAMBDA el : isDescendant(d, el, root)
                                           /\ hasTranslatableText(d, el)))

\* The lookup of the characterData branch finding no record.
findRecord_NotFound(det, el) == 0

\* detectedContent.find(c => c.element === parent): the index of the first
\* record of the element, or 0.
findRecord(det, el) ==
    IF isTracked(det, el)
    THEN CHOOSE k \in DOMAIN det :
            /\ det[k].element = el
            /\ \A m \in 1..(k - 1) : det[m].element # el
    ELSE 0

\* The observer callback's handling of one mutation record, on
\* acc = [det, newContent]: an added element node goes through
\* detectContentInElement; a changed text node updates the record of its
\* parent element or creates one.
processMutation(d, acc, m) ==
    IF m.type = "childList"
    THEN [acc EXCEPT !.newContent = @ \o detectContentInElement(d, m.node)]
    ELSE IF ~hasTranslatableText(d, m.node) THEN acc
    ELSE LET existing == findRecord(acc.det, m.node)
         IN  IF existing # 0
             THEN [acc EXCEPT
                     !.det = [@ EXCEPT ![existing].originalText =
                                           extractElementText(d, m.node),
                                       ![existing].isTranslated = FALSE]]
             ELSE [det |-> Append(acc.det, newRecord(d, m.node)),
                   newContent |-> Append(acc.newContent, newRecord(d, m.node))]

\* mutations.forEach over the records of one batch.
RECURSIVE processMutations(_, _, _, _)
processMutations(d, acc, mutations, i) ==
    IF i > Len(mutations) THEN acc
    ELSE processMutations(d, processMutation(d, acc, mutations[i]), mutations, i + 1)

\* The callbacks callers pass to watch().
Callbacks == {"cb1", "cb2"}

\* `call` under SpecWatch: the detector's isWatching and watchCallback, the
\* observers installed, the mutation records queued, what the last step
\* handed to a callback (to which one, and in how many invocations), the
\* callback a watch() call has just ignored, what the step's detect() returned,
\* and the elements handed to a callback so far.
WatchStep(cb, observers, queue, delivered, returned) ==
    [op |-> "watch", isWatching |-> cb # Undefined, watchCallback |-> cb,
     observers |-> observers, queue |-> queue,
     delivered |-> delivered, invoked |-> IF delivered = <<>> THEN 0 ELSE 1,
     callee |-> IF delivered = <<>> THEN Undefined ELSE cb, ignored |-> Undefined,
     returned |-> returned,
     everDelivered |-> (IF call.op = "watch" THEN call.everDelivered ELSE {})
                          \cup {delivered[i].element : i \in DOMAIN delivered}]

\* The documents a detector starts on: e1 alone, or e1 with e2.
InitWatch ==
    /\ \E els \in {{"e1"}, WatchElements},
          k \in [WatchElements -> BOOLEAN], t \in [WatchElements -> WatchTexts] :
          Construct([persistLanguage |-> FALSE, autoTranslate |-> FALSE,
                     preserveOriginalText |-> TRUE, translationApi |-> FALSE,
                     fallbackLanguage |-> "en"],
                    [hasDocument |-> TRUE, localStorage |-> "ok"], Undefined,
                    [el \in els |-> [text |-> t[el], translated |-> FALSE,
                                     deny |-> k[el], parent |-> ParentOf[el]]])
    /\ interpolationFunction = "default"
    /\ call = [op |-> "watch", isWatching |-> FALSE, watchCallback |-> Undefined,
               observers |-> 0, queue |-> <<>>, delivered |-> <<>>, invoked |-> 0,
               callee |-> Undefined, ignored |-> Undefined, returned |-> <<>>, everDelivered |-> {}]

\* watch() storing the callback and installing an observer on every call.
watchReturnsEarly_Never == FALSE

\* `typeof document === 'undefined' || this.isWatching`, the guard of watch().
watchReturnsEarly == ~env.hasDocument \/ call.isWatching

\* A caller invokes watch(callback): nothing when already watching, otherwise
\* the callback is stored, the initial detect() is handed to it when it found
\* something, and an observer is installed.
Watch(callback) ==
    /\ call.op = "watch"
    /\ IF watchReturnsEarly
       THEN /\ call' = [WatchStep(call.watchCallback, call.observers, call.queue,
                                  <<>>, <<>>) EXCEPT !.ignored = callback]
            /\ UNCHANGED detectedContent
       ELSE LET det == detect(dom, detectedContent)
                initialContent == SubSeq(det, Len(detectedContent) + 1, Len(det))
            IN  /\ detectedContent' = det
                /\ call' = WatchStep(callback, call.observers + 1, call.queue,
                                     initialContent, <<>>)
    /\ UNCHANGED <<currentLanguage, availableLanguages, translations, onLanguageChange,
                   options, translationService, originalTexts, env, storage,
                   documentElement, dom, pending, ev, interpolationFunction>>

\* A caller invokes unwatch(): the observer is disconnected, its queued
\* records are dropped.
Unwatch ==
    /\ call.op = "watch"
    /\ call' = WatchStep(Undefined, 0, <<>>, <<>>, <<>>)
    /\ UNCHANGED <<currentLanguage, availableLanguages, translations, onLanguageChange,
                   options, translationService, originalTexts, detectedContent, env,
                   storage, documentElement, dom, pending, ev, interpolationFunction>>

\* A caller invokes detect() on the watched document.
DetectWatched ==
    /\ call.op = "watch"
    /\ LET det == detect(dom, detectedContent)
       IN  /\ detectedContent' = det
           /\ call' = WatchStep(call.watchCallback, call.observers, call.queue, <<>>,
                                SubSeq(det, Len(detectedContent) + 1, Len(det)))
    /\ UNCHANGED <<currentLanguage, availableLanguages, translations, onLanguageChange,
                   options, translationService, originalTexts, env, storage,
                   documentElement, dom, pending, ev, interpolationFunction>>

\* A caller invokes markAsTranslated(element, translatedText).
MarkAsTranslated(el) ==
    /\ call.op = "watch"
    /\ detectedContent' =
          markAsTranslated(detectedContent, el, Translated(extractElementText(dom, el), "ar"))
    /\ call' = WatchStep(call.watchCallback, call.observers, call.queue, <<>>, <<>>)
    /\ UNCHANGED <<currentLanguage, availableLanguages, translations, onLanguageChange,
                   options, translationService, originalTexts, env, storage,
                   documentElement, dom, pending, ev, interpolationFunction>>

\* What the observer queues for a change of the document: one record, when
\* it is installed.
observed(m) == IF call.isWatching THEN Append(call.queue, m) ELSE <<>>

\* The page appends e2 under e1: a childList record with e2 among addedNodes.
AppendChild(el, text, deny) ==
    /\ call.op = "watch"
    /\ el \notin DOMAIN dom
    /\ ParentOf[el] \in DOMAIN dom
    /\ Len(call.queue) < MaxQueue
    /\ dom' = (el :> [text |-> text, translated |-> FALSE, deny |-> deny,
                      parent |-> ParentOf[el]]) @@ dom
    /\ call' = WatchStep(call.watchCallback, call.observers,
                         observed([type |-> "childList", node |-> el]), <<>>, <<>>)
    /\ UNCHANGED <<currentLanguage, availableLanguages, translations, onLanguageChange,
                   options, translationService, originalTexts, detectedContent, env,
                   storage, documentElement, pending, ev, interpolationFunction>>

\* The page changes the data of the text node of an element: a characterData
\* record whose target's parentElement is the element.
ChangeCharacterData(el, text) ==
    /\ call.op = "watch"
    /\ el \in DOMAIN dom
    /\ dom[el].text # text
    /\ Len(call.queue) < MaxQueue
    /\ dom' = [dom EXCEPT ![el].text = text]
    /\ call' = WatchStep(call.watchCallback, call.observers,
                         observed([type |-> "characterData", node |-> el]), <<>>, <<>>)
    /\ UNCHANGED <<currentLanguage, availableLanguages, translations, onLanguageChange,
                   options, translationService, originalTexts, detectedContent, env,
                   storage, documentElement, pending, ev, interpolationFunction>>

\* The observer callback runs on the queued batch of records and hands
\* newContent to the watch callback when it is not empty.
ObserverCallback ==
    /\ call.op = "watch"
    /\ call.isWatching
    /\ call.queue # <<>>
    /\ LET acc == processMutations(dom, [det |-> detectedContent, newContent |-> <<>>],
                                   call.queue, 1)
       IN  /\ detectedContent' = acc.det
           /\ call' = WatchStep(call.watchCallback, call.observers, <<>>,
                                acc.newContent, <<>>)
    /\ UNCHANGED <<currentLanguage, availableLanguages, translations, onLanguageChange,
                   options, translationService, originalTexts, env, storage,
                   documentElement, dom, pending, ev, interpolationFunction>>

NextWatch ==
    \/ Watch("cb1")
    \/ Unwatch
    \/ DetectWatched
    \/ \E el \in WatchElements : MarkAsTranslated(el)
    \/ \E el \in WatchElements, t \in WatchTexts, k \in BOOLEAN : AppendChild(el, t, k)
    \/ \E el \in WatchElements, t \in WatchTexts : ChangeCharacterData(el, t)
    \/ ObserverCallback

SpecWatch == InitWatch /\ [][NextWatch]_vars

\* Two callers, each with its own callback, on a page that shows e1 and gets
\* e2 appended.
InitCallbacks ==
    /\ InitWatch
    /\ DOMAIN dom = {"e1"}
    /\ \A el \in DOMAIN dom : ~dom[el].deny

NextCallbacks ==
    \/ \E cb \in Callbacks : Watch(cb)
    \/ Unwatch
    \/ DetectWatched
    \/ \E el \in WatchElements, t \in WatchTexts, k \in BOOLEAN : AppendChild(el, t, k)
    \/ \E el \in WatchElements, t \in WatchTexts : ChangeCharacterData(el, t)
    \/ ObserverCallback

SpecCallbacks == InitCallbacks /\ [][NextCallbacks]_vars

----------------------------------------------------------------------------
(* Claims about the watching detector *)

\* C27: whatever the interleaving of detect(), watch(), mutation batches
\* (added nodes, character-data changes), markAsTranslated and unwatch(), the
\* detector's collection holds at most one record per element.
C27_OneRecordPerElement ==
    call.op = "watch" =>
        \A i, j \in DOMAIN detectedContent :
            detectedContent[i].element = detectedContent[j].element => i = j

\* C27 witness: both elements tracked, one record translated, and the observer
\* callback has just handed over a record created for a changed text.
C27_Witness ==
    /\ call.op = "watch"
    /\ call.isWatching
    /\ call.invoked = 1
    /\ ElementsOf(detectedContent) = WatchElements
    /\ \E i \in DOMAIN detectedContent : detectedContent[i].isTranslated
    /\ \E i \in DOMAIN call.delivered : call.delivered[i].originalText.src = "World"

\* C28: nothing handed to the watch callback, by watch() itself or by the
\* observer callback, belongs to an element that matches a deny rule or has an
\* ancestor that does.
C28_DeniedNeverDelivered ==
    call.op = "watch" =>
        \A i \in DOMAIN call.delivered : ~Denied(dom, call.delivered[i].element)

\* C31: watch(cb) on a detector that is already watching changes nothing: the
\* stored callback stays, no observer is added, no detect() runs and nothing
\* is invoked; on a detector that is not watching it stores cb, installs the
\* one observer, runs detect() and invokes cb, at once, exactly when that
\* detect() found content.  No callback other than the stored one is invoked.
C31_SecondWatchIsNoOp ==
    [][call.op = "watch" =>
        /\ \A cb \in Callbacks :
              Watch(cb) =>
                 IF call.isWatching
                 THEN /\ call'.watchCallback = call.watchCallback
                      /\ call'.observers = call.observers
                      /\ call'.queue = call.queue
                      /\ detectedContent' = detectedContent
                      /\ call'.invoked = 0
                 ELSE /\ call'.isWatching /\ call'.watchCallback = cb
                      /\ call'.observers = 1
                      /\ ElementsOf(call'.delivered) =
                            ElementsOf(detectedContent') \ ElementsOf(detectedContent)
                      /\ call'.invoked = IF call'.delivered = <<>> THEN 0 ELSE 1
                      /\ call'.invoked = 1 => call'.callee = cb
        /\ call'.callee \in {Undefined, call'.watchCallback}]_vars

\* C31 witness: watch(cb2) has just returned on a detector that watches for
\* cb1, with a mutation record waiting and content on the page that no
\* detect() has seen yet.
C31_Witness ==
    /\ call.op = "watch"
    /\ call.ignored = "cb2"
    /\ call.watchCallback = "cb1"
    /\ call.observers = 1
    /\ call.queue # <<>>
    /\ detect(dom, detectedContent) # detectedContent

\* The records the collection holds for an element.
RecordsOf(det, el) == {det[i] : i \in {j \in DOMAIN det : det[j].element = el}}

\* C29: every item handed to the watch callback is a record of the collection
\* (getDetectedContent() has it); detect() returns no element again that was
\* handed to the callback before; markAsTranslated on such an element marks
\* its record.
C29_DeliveredItemsAreRecords ==
    [][call.op = "watch" =>
        /\ \A i \in DOMAIN call'.delivered :
              call'.delivered[i] \in RecordsOf(detectedContent', call'.delivered[i].element)
        /\ DetectWatched => ElementsOf(call'.returned) \cap call.everDelivered = {}
        /\ \A el \in call.everDelivered :
              MarkAsTranslated(el) =>
                 /\ RecordsOf(detectedContent', el) # {}
                 /\ \A r \in RecordsOf(detectedContent', el) : r.isTranslated]_vars

\* The elements whose records a step created or changed.
Touched ==
    {el \in WatchElements : RecordsOf(detectedContent', el) # RecordsOf(detectedContent, el)}

\* C30: the observer callback hands every record its batch created, and every
\* existing record a character-data change of the batch updated, to the watch
\* callback in one invocation, and does not invoke it for a batch of
\* character-data changes that touched no record.
C30_BatchDeliveredOnce ==
    [][ObserverCallback =>
          /\ Touched \subseteq ElementsOf(call'.delivered)
          /\ call'.invoked = IF call'.delivered = <<>> THEN 0 ELSE 1
          /\ (Touched = {} /\ \A i \in DOMAIN call.queue :
                                 call.queue[i].type = "characterData")
                => call'.invoked = 0]_vars

----------------------------------------------------------------------------
(* TranslationService.translateBatch over bounded batches *)

MaxBatch == 3      \* longest batch of requests

BatchTexts == {Text("Hello", "orig", FALSE), Text("Bye", "orig", FALSE)}

BatchRequests ==
    SeqsUpTo([text : BatchTexts, fromLanguage : {defaultLanguage},
              toLanguage : {"ar"}, element : {"e1"}], MaxBatch)

\* `private rateLimitDelay = 0`, a field no statement assigns.
rateLimitDelay == 0

\* config.rateLimit as callers set it: unset, or 100 as in the README.
RateLimits == {Undefined, "100"}

\* handleRateLimit(): whether it waits before the provider is called.
handleRateLimit(rateLimit) == rateLimit # Undefined /\ rateLimitDelay > 0

\* The loop entering translate() for every request at once.
loopReaches_AllAtOnce(i) == i \notin call.started

\* `for (const request of requests) { ... await this.translate(request) ... }`:
\* the loop reaches request i when a response is pushed for every request
\* before it.
loopReaches(i) == i = Len(call.responses) + 1 /\ i \notin call.started

\* `call` under SpecBatch: config.rateLimit, the requests, the requests whose
\* provider call was started and those that waited before it, the responses
\* pushed so far, the items whose provider call failed, and whether the
\* promise has resolved.
InitBatch ==
    /\ Registered(defaultLanguage, "en", <<>>)
    /\ interpolationFunction = "default"
    /\ call \in [op : {"translateBatch"}, requests : BatchRequests,
                 rateLimit : RateLimits, started : {{}}, delayed : {{}},
                 responses : {<<>>}, failed : {{}}, state : {"running"}]

\* The loop calls translate(request) for item i: handleRateLimit(), with its
\* wait when it makes one, then the provider call is started.
Translate(i) ==
    /\ call.op = "translateBatch"
    /\ call.state = "running"
    /\ i \in DOMAIN call.requests
    /\ loopReaches(i)
    /\ call' = [call EXCEPT
                  !.delayed = IF handleRateLimit(call.rateLimit) THEN @ \cup {i} ELSE @,
                  !.started = @ \cup {i}]
    /\ UNCHANGED <<interpolationFunction, engineVars>>

\* One turn of the loop: the provider call for the next request succeeds or
\* throws, and a response is pushed.
TranslateNext(ok) ==
    /\ call.op = "translateBatch"
    /\ call.state = "running"
    /\ Len(call.responses) < Len(call.requests)
    /\ Len(call.responses) + 1 \in call.started
    /\ LET i == Len(call.responses) + 1
       IN  call' = [call EXCEPT
                      !.responses = Append(@, batchResponse(call.requests[i], ok)),
                      !.failed = IF ok THEN @ ELSE @ \cup {i}]
    /\ UNCHANGED <<interpolationFunction, engineVars>>

\* The loop is over: translateBatch resolves with the responses.
ReturnResponses ==
    /\ call.op = "translateBatch"
    /\ call.state = "running"
    /\ Len(call.responses) = Len(call.requests)
    /\ call' = [call EXCEPT !.state = "resolved"]
    /\ UNCHANGED <<interpolationFunction, engineVars>>

NextBatch ==
    \/ \E i \in 1..MaxBatch : Translate(i)
    \/ \E ok \in BOOLEAN : TranslateNext(ok)
    \/ ReturnResponses

SpecBatch == InitBatch /\ [][NextBatch]_vars

----------------------------------------------------------------------------
(* Claims about the translation service *)

\* C20: translateBatch resolves with one response per request, in request
\* order: the response of an item whose provider call failed carries the
\* request's own text and confidence zero, every other response carries the
\* translation of its request, also after a failed item.
C20_BatchKeepsPositions ==
    call.op = "translateBatch" =>
        /\ call.state = "resolved" => Len(call.responses) = Len(call.requests)
        /\ \A i \in DOMAIN call.responses :
              IF i \in call.failed
              THEN /\ call.responses[i].translatedText = call.requests[i].text
                   /\ call.responses[i].confidence = ZeroConfidence
              ELSE /\ call.responses[i].translatedText
                         = Text(call.requests[i].text.src, call.requests[i].toLanguage, FALSE)
                   /\ call.responses[i].confidence # ZeroConfidence

\* C20 witness: a batch of three different requests has resolved, the
\* second item failed and the third was translated.
C20_Witness ==
    /\ call.op = "translateBatch"
    /\ call.state = "resolved"
    /\ Len(call.requests) = 3
    /\ call.requests[2].text # call.requests[3].text
    /\ call.failed = {2}
    /\ call.responses[3].translatedText.lang = "ar"

\* C33: translateBatch handles its requests one at a time in request order:
\* the provider call for a request is started only when the call of every
\* request before it has completed or failed.
C33_OneRequestAtATime ==
    call.op = "translateBatch" =>
        \A i \in call.started :
            \A j \in 1..(i - 1) : j \in call.started /\ j \in DOMAIN call.responses

\* C33 witness: the third provider call is under way after the first failed
\* and the second completed.
C33_Witness ==
    /\ call.op = "translateBatch"
    /\ call.started = {1, 2, 3}
    /\ Len(call.responses) = 2
    /\ call.failed = {1}

\* C34: with a rate limit configured every translate call waits before the
\* provider is called, and without one no call waits.
C34_RateLimitDelays ==
    call.op = "translateBatch" =>
        call.delayed = IF call.rateLimit # Undefined THEN call.started ELSE {}

----------------------------------------------------------------------------
(* Automatic translation: startAutoTranslation, stopAutoTranslation and the *)
(* callback the switcher hands to the detector's watch()                    *)

MaxInFlight == 1   \* most translateNewContent calls suspended at `await translateBatch`
MaxRecords == 1    \* most mutation records in one run of the observer callback

\* The texts the page shows and writes.
AutoTexts == {Text("Hello", "orig", FALSE), Text("World", "orig", FALSE)}

\* No batch applied in a step.
NoBatch == [requests |-> <<>>, responses |-> <<>>]

\* `call` under SpecAutoWatch: LanguageSwitcher.isAutoTranslating, the
\* detector's isWatching, the observers installed, the mutation records
\* queued, the requests of every translateNewContent call suspended at its
\* await, and what the last step did: the items it reported to the watch
\* callback, the requests it sent to the translator, the batch whose
\* responses it applied.
AutoStep(active, w, inFlight, reported, sent, batch) ==
    [op |-> "auto", isAutoTranslating |-> active, isWatching |-> w.isWatching,
     observers |-> w.observers, queue |-> w.queue, inFlight |-> inFlight,
     reported |-> reported, sent |-> sent, applied |-> batch]

\* The detector's watching state.
Watching == [isWatching |-> call.isWatching, observers |-> call.observers,
             queue |-> call.queue]

\* A step of a caller that reaches neither the detector nor the translator.
AutoQuiet == AutoStep(call.isAutoTranslating, Watching, call.inFlight, <<>>, <<>>, NoBatch)

\* stopAutoTranslation leaving the detector as it is.
unwatch_Nothing(w) == w

\* unwatch(): the observer is disconnected (its queued records are dropped)
\* and isWatching is cleared.
unwatch(w) == [isWatching |-> FALSE, observers |-> 0, queue |-> <<>>]

\* The filter of translateNewContent: items not yet translated whose text
\* is translatable.
translatableNewContent(content) ==
    SelectSeq(content, LAMBDA item :
                  ~item.isTranslated /\ isTranslatableText(item.originalText))

\* The callback startAutoTranslation passes to watch(), up to its await: the
\* requests it sends to translateBatch (none when it returns before).
onNewContent(newContent) ==
    IF translationService /\ currentLanguage # defaultLanguage
    THEN requestsFrom(translatableNewContent(newContent), currentLanguage, 1)
    ELSE <<>>

\* The suspended calls after one more has sent `requests`.
suspend(inFlight, requests) ==
    IF requests = <<>> THEN inFlight ELSE Append(inFlight, requests)

\* The switcher is constructed on a page showing e1, with or without a
\* translation client; automatic translation is started by its caller.
InitAutoWatch ==
    /\ \E api \in BOOLEAN, t \in AutoTexts :
          Construct([persistLanguage |-> FALSE, autoTranslate |-> FALSE,
                     preserveOriginalText |-> FALSE, translationApi |-> api,
                     fallbackLanguage |-> "en"],
                    [hasDocument |-> TRUE, localStorage |-> "ok"], Undefined,
                    [el \in {"e1"} |-> [text |-> t, translated |-> FALSE,
                                        deny |-> FALSE, parent |-> ParentOf[el]]])
    /\ interpolationFunction = "default"
    /\ call = [op |-> "auto", isAutoTranslating |-> FALSE, isWatching |-> FALSE,
               observers |-> 0, queue |-> <<>>, inFlight |-> <<>>,
               reported |-> <<>>, sent |-> <<>>, applied |-> NoBatch]

\* A caller invokes startAutoTranslation(): nothing when already active;
\* otherwise the flag is set and watch() is called with the callback, which
\* receives the initial detect() when that found something.
StartAutoTranslation ==
    /\ call.op = "auto"
    /\ IF call.isAutoTranslating
       THEN /\ call' = AutoQuiet
            /\ UNCHANGED detectedContent
       ELSE IF watchReturnsEarly
       THEN /\ call' = [AutoQuiet EXCEPT !.isAutoTranslating = TRUE]
            /\ UNCHANGED detectedContent
       ELSE LET det == detect(dom, detectedContent)
                initialContent == SubSeq(det, Len(detectedContent) + 1, Len(det))
                requests == onNewContent(initialContent)
            IN  /\ Len(suspend(call.inFlight, requests)) <= MaxInFlight
                /\ detectedContent' = det
                /\ call' = AutoStep(TRUE,
                                    [isWatching |-> TRUE,
                                     observers |-> call.observers + 1,
                                     queue |-> call.queue],
                                    suspend(call.inFlight, requests),
                                    initialContent, requests, NoBatch)
    /\ ev' = Quiet
    /\ UNCHANGED <<currentLanguage, availableLanguages, translations, onLanguageChange,
                   options, translationService, originalTexts, env, storage,
                   documentElement, dom, pending, interpolationFunction>>

\* A caller invokes stopAutoTranslation(): nothing when inactive; otherwise
\* the flag is cleared and the detector unwatches.
StopAutoTranslation ==
    /\ call.op = "auto"
    /\ call' = IF ~call.isAutoTranslating THEN AutoQuiet
               ELSE AutoStep(FALSE, unwatch(Watching), call.inFlight, <<>>, <<>>, NoBatch)
    /\ ev' = Quiet
    /\ UNCHANGED <<currentLanguage, availableLanguages, translations, onLanguageChange,
                   options, translationService, originalTexts, detectedContent, env,
                   storage, documentElement, dom, pending, interpolationFunction>>

\* The page appends e2 under e1.
PageAppendsChild(el, text) ==
    /\ call.op = "auto"
    /\ el \notin DOMAIN dom
    /\ ParentOf[el] \in DOMAIN dom
    /\ Len(call.queue) < MaxRecords
    /\ dom' = (el :> [text |-> text, translated |-> FALSE, deny |-> FALSE,
                      parent |-> ParentOf[el]]) @@ dom
    /\ call' = [AutoQuiet EXCEPT !.queue = observed([type |-> "childList", node |-> el])]
    /\ ev' = Quiet
    /\ UNCHANGED <<currentLanguage, availableLanguages, translations, onLanguageChange,
                   options, translationService, originalTexts, detectedContent, env,
                   storage, documentElement, pending, interpolationFunction>>

\* The page changes the data of the text node of an element.
PageChangesText(el, text) ==
    /\ call.op = "auto"
    /\ el \in DOMAIN dom
    /\ dom[el].text # text
    /\ Len(call.queue) < MaxRecords
    /\ dom' = [dom EXCEPT ![el].text = text]
    /\ call' = [AutoQuiet EXCEPT !.queue = observed([type |-> "characterData", node |-> el])]
    /\ ev' = Quiet
    /\ UNCHANGED <<currentLanguage, availableLanguages, translations, onLanguageChange,
                   options, translationService, originalTexts, detectedContent, env,
                   storage, documentElement, pending, interpolationFunction>>

\* The observer callback runs on the queued records and hands a non-empty
\* newContent to the switcher's callback.
ReportNewContent ==
    /\ call.op = "auto"
    /\ call.isWatching
    /\ call.queue # <<>>
    /\ LET acc == processMutations(dom, [det |-> detectedContent, newContent |-> <<>>],
                                   call.queue, 1)
           requests == onNewContent(acc.newContent)
       IN  /\ Len(suspend(call.inFlight, requests)) <= MaxInFlight
           /\ detectedContent' = acc.det
           /\ call' = AutoStep(call.isAutoTranslating,
                               [Watching EXCEPT !.queue = <<>>],
                               suspend(call.inFlight, requests),
                               acc.newContent, requests, NoBatch)
    /\ ev' = Quiet
    /\ UNCHANGED <<currentLanguage, availableLanguages, translations, onLanguageChange,
                   options, translationService, originalTexts, env, storage,
                   documentElement, dom, pending, interpolationFunction>>

\* translateBatch answers the oldest suspended translateNewContent: every
\* response with a text is applied to its element and marked in the detector.
ResumeTranslateNewContent(ok) ==
    /\ call.op = "auto"
    /\ call.inFlight # <<>>
    /\ LET requests == Head(call.inFlight)
           responses == translateBatch(requests, ok)
           p == applyResponses(Page, requests, responses, 1)
       IN  /\ dom' = p.dom
           /\ originalTexts' = p.orig
           /\ detectedContent' = p.det
           /\ call' = AutoStep(call.isAutoTranslating, Watching, Tail(call.inFlight),
                               <<>>, <<>>,
                               [requests |-> requests, responses |-> responses])
    /\ ev' = Quiet
    /\ UNCHANGED <<currentLanguage, availableLanguages, translations, onLanguageChange,
                   options, translationService, env, storage, documentElement,
                   pending, interpolationFunction>>

NextAutoWatch ==
    \/ StartAutoTranslation
    \/ StopAutoTranslation
    \/ \E t \in AutoTexts : PageAppendsChild("e2", t)
    \/ \E el \in WatchElements, t \in AutoTexts : PageChangesText(el, t)
    \/ ReportNewContent
    \/ \E b \in BOOLEAN : ResumeTranslateNewContent([i \in 1..MaxBatch |-> b])
    \/ AddLanguage("ar", [code |-> "ar"])
          /\ call.op = "auto" /\ call' = AutoQuiet /\ UNCHANGED interpolationFunction
    \/ \E l \in LangCodes :
          SetLanguage(l)
             /\ call.op = "auto" /\ call' = AutoQuiet /\ UNCHANGED interpolationFunction

SpecAutoWatch == InitAutoWatch /\ [][NextAutoWatch]_vars

----------------------------------------------------------------------------
(* Claims about automatic translation *)

\* C32: startAutoTranslation while active changes nothing and installs no
\* second watch; stopAutoTranslation while inactive changes nothing;
\* stopAutoTranslation leaves no observer and no queued record; while
\* inactive no step other than startAutoTranslation reports content or
\* calls the translator, and the only writes to the page are the answers
\* of batches sent before; startAutoTranslation installs the watch again.
C32_StopEndsAutoTranslation ==
    [][call.op = "auto" =>
        /\ (StartAutoTranslation /\ call.isAutoTranslating) =>
              /\ call' = AutoQuiet
              /\ UNCHANGED <<dom, detectedContent, originalTexts>>
        /\ (StartAutoTranslation /\ ~call.isAutoTranslating) =>
              /\ call'.isAutoTranslating
              /\ call'.isWatching
              /\ call'.observers = 1
        /\ (StopAutoTranslation /\ ~call.isAutoTranslating) =>
              /\ call' = AutoQuiet
              /\ UNCHANGED <<dom, detectedContent, originalTexts>>
        /\ StopAutoTranslation =>
              /\ ~call'.isAutoTranslating
              /\ ~call'.isWatching
              /\ call'.observers = 0
              /\ call'.queue = <<>>
        /\ (~call.isAutoTranslating /\ ~StartAutoTranslation) =>
              /\ call'.queue = <<>>
              /\ call'.reported = <<>>
              /\ call'.sent = <<>>
              /\ call'.applied # NoBatch =>
                    /\ call.inFlight # <<>>
                    /\ call'.applied.requests = Head(call.inFlight)
              /\ Len(call'.inFlight) <= Len(call.inFlight)]_vars

\* C32 witness: automatic translation has translated e1 and was stopped; e2,
\* appended since, is shown untranslated and unknown to the detector while
\* the client is configured and the language is not the default.
C32_Witness ==
    /\ call.op = "auto"
    /\ ~call.isAutoTranslating
    /\ call.observers = 0
    /\ call.inFlight = <<>>
    /\ translationService
    /\ currentLanguage = "ar"
    /\ dom["e1"].translated
    /\ "e2" \in DOMAIN dom
    /\ ~dom["e2"].translated
    /\ ~isTracked(detectedContent, "e2")

\* C36: with a client configured, content reported while the current
\* language is the default sends nothing to the translator and writes
\* nothing; content reported while it differs is sent as one batch, and when
\* the batch answers during automatic translation every item's element
\* shows its result and has a detector record flagged translated.
C36_ReportedContentIsTranslated ==
    [][(call.op = "auto" /\ translationService) =>
        /\ (call'.reported # <<>> /\ currentLanguage = defaultLanguage) =>
              /\ call'.sent = <<>>
              /\ call'.inFlight = call.inFlight
              /\ UNCHANGED <<dom, originalTexts>>
        /\ (call'.reported # <<>> /\ currentLanguage # defaultLanguage) =>
              call'.sent = [i \in DOMAIN call'.reported |->
                               [text |-> call'.reported[i].originalText,
                                fromLanguage |-> defaultLanguage,
                                toLanguage |-> currentLanguage,
                                element |-> call'.reported[i].element]]
        /\ (call'.applied # NoBatch /\ call.isAutoTranslating) =>
              \A i \in DOMAIN call'.applied.requests :
                 LET el == call'.applied.requests[i].element
                 IN  /\ dom'[el].text = call'.applied.responses[i]
                     /\ \E k \in DOMAIN detectedContent' :
                           /\ detectedContent'[k].element = el
                           /\ detectedContent'[k].isTranslated]_vars

====
